---- MODULE Spec2Model ----
(***************************************************************************)
(* Model of the rendezvous-and-patrol planner of GSatMicroListener:        *)
(*   WayPoint.py   single-leg intercept solver (WayPoint.__dt,            *)
(*                 WayPoint.__mkWaypoint)                                  *)
(*   WayPoints.py  leg sequencer (WayPoints.__init__, __findClosest) and   *)
(*                 plan stability check (__checkForward, __closeEnough,    *)
(*                 __qGenGoto, goto)                                       *)
(*   Update.py     the update worker (Update.runAndCatch, __getPattern,    *)
(*                 __getIndex, __mkGoto) with its request queue and its    *)
(*                 pattern cache, and its telemetry (__loadDB, __mkGlider) *)
(*                 its delivery threads (API, MailTo, Archiver, Filer)     *)
(*                 and Update.waitToFinish                                 *)
(*   Patterns.py   the enable flag of a catalog entry (Patterns.qEnabled)  *)
(*   Drifter.py    the drifter estimator (Drifter.__fetch, estimate)       *)
(*   Dialog.py     the decoding of an echoed coordinate                    *)
(*                 (MyPattern.__mkDegrees)                                 *)
(*                                                                         *)
(* Numbers.  The Python code computes in floating point.  The model        *)
(* computes in exact rational arithmetic: a number is a pair <<n, d>>,     *)
(* d > 0, in lowest terms.  math.sqrt is exact on the squares of           *)
(* rationals, and the bounded inputs are those on which every square root  *)
(* the planner takes is such a square (Representable below).               *)
(*                                                                         *)
(* Geography.  A LatLon is modelled as a point of the plane in metres;     *)
(* geodesic offsets (LatLon.delta) and LatLon.translate are the planar     *)
(* ones.                                                                   *)
(***************************************************************************)
EXTENDS Integers, Sequences, FiniteSets, TLC

\* ------------------------------------------------------------------ bounds
MaxPatterns == 2   \* longest pattern catalog
MaxCount    == 3   \* largest --wptsCount
MaxPrev     == 2   \* most rows of the latest generation in the history
MaxFixes    == 3   \* most fixes of the drifter read from table mom
MaxNumer    == 500 \* largest numerator of a decimal-degree value encoded

\* ------------------------------------------------------- exact arithmetic
Abs(n) == IF n < 0 THEN -n ELSE n

RECURSIVE GCD(_, _)
GCD(a, b) == IF b = 0 THEN a ELSE GCD(b, a % b)

\* the rational n/d in lowest terms with a positive denominator
Rat(n, d) ==
  LET s == IF d < 0 THEN -1 ELSE 1
      g == GCD(Abs(n), Abs(d))
  IN  <<(s * n) \div g, (s * d) \div g>>

R(n) == <<n, 1>>
Zero == R(0)

RAdd(p, q) == Rat(p[1] * q[2] + q[1] * p[2], p[2] * q[2])
RSub(p, q) == Rat(p[1] * q[2] - q[1] * p[2], p[2] * q[2])
RMul(p, q) == Rat(p[1] * q[1], p[2] * q[2])
RDiv(p, q) == Rat(p[1] * q[2], p[2] * q[1])
RNeg(p)    == <<-p[1], p[2]>>
RLt(p, q)  == p[1] * q[2] < q[1] * p[2]
RLe(p, q)  == p[1] * q[2] <= q[1] * p[2]
RMin(p, q) == IF RLe(p, q) THEN p ELSE q
RMax(p, q) == IF RLe(q, p) THEN p ELSE q

\* the least r >= from with r * r >= n
RECURSIVE SqrtFrom(_, _)
SqrtFrom(n, from) == IF from * from >= n THEN from ELSE SqrtFrom(n, from + 1)

IsSquare(n) == n >= 0 /\ SqrtFrom(n, 0) * SqrtFrom(n, 0) = n
\* the square root of a square (of nothing else)
ISqrt(n)    == CHOOSE r \in {SqrtFrom(n, 0)} : r * r = n

\* math.sqrt on a non-negative rational that is the square of a rational
RIsSquare(p) == IsSquare(p[1]) /\ IsSquare(p[2])
RSqrt(p)     == <<ISqrt(p[1]), ISqrt(p[2])>>

RAbs(p)    == <<Abs(p[1]), p[2]>>

\* the sum of a sequence of rationals
RECURSIVE RSum(_)
RSum(s) == IF Len(s) = 0 THEN Zero ELSE RAdd(Head(s), RSum(Tail(s)))

\* np.exp(dt / tau) and math.exp((t - tMax) / tau) for dt <= 0, with the
\* time unit of the model chosen so that tau = 1 / ln 2: a row one unit older
\* weighs half
Decay(d) == Rat(1, 2 ^ (0 - d))

\* --------------------------------------------------------- Point (vectors)
Pt(x, y)   == [x |-> x, y |-> y]
PtI(x, y)  == Pt(R(x), R(y))
VAdd(a, b) == Pt(RAdd(a.x, b.x), RAdd(a.y, b.y))
VSub(a, b) == Pt(RSub(a.x, b.x), RSub(a.y, b.y))
VMul(a, k) == Pt(RMul(a.x, k), RMul(a.y, k))
Dot(a, b)  == RAdd(RMul(a.x, b.x), RMul(a.y, b.y))

\* ---------------------------------------------------------------- results
\* a call either returns a value or raises a Python exception
Ret(v)     == [ok |-> TRUE, val |-> v, err |-> "none"]
Raise(e)   == [ok |-> FALSE, val |-> Zero, err |-> e]
None       == [some |-> FALSE, val |-> 0]
Some(v)    == [some |-> TRUE, val |-> v]

\* --------------------------------------------------------------- WayPoint.py
\* Drifter(lat, lon, vx, vy), Glider(lat, lon, speed), Water(vx, vy),
\* Pattern(xOffset, yOffset, qRotate)
Drifter(latLon, v)       == [latLon |-> latLon, v |-> v]
Glider(latLon, speed)    == [latLon |-> latLon, speed |-> speed]
Water(v)                 == [v |-> v]
Pattern(offset, qRotate) == [offset |-> offset, qRotate |-> qRotate]

\* LatLon.delta(lhs, rhs): east/north offset of rhs from lhs
Delta(lhs, rhs) == VSub(rhs, lhs)
\* LatLon.translate(self, dist)
Translate(latLon, dist) == VAdd(latLon, dist)

\* Drifter.theta = atan2(vy, vx), carried as (cos theta, sin theta);
\* atan2(0, 0) = 0
Norm2(v) == Dot(v, v)
\* Theta taking the heading of a velocity of zero as 180 degrees
Theta_South(v) ==
  IF Norm2(v) = Zero THEN Pt(R(-1), R(0))
  ELSE LET n == RSqrt(Norm2(v)) IN Pt(RDiv(v.x, n), RDiv(v.y, n))
Theta(v) ==
  IF Norm2(v) = Zero THEN Pt(R(1), R(0))
  ELSE LET n == RSqrt(Norm2(v)) IN Pt(RDiv(v.x, n), RDiv(v.y, n))

\* Point.rotate(theta): theta = 0 leaves the point as it is
Rotate(p, th) ==
  IF th = Pt(R(1), R(0)) THEN p
  ELSE Pt(RSub(RMul(p.x, th.x), RMul(p.y, th.y)),
          RAdd(RMul(p.x, th.y), RMul(p.y, th.x)))

\* Pattern.rotate(theta)
PatternRotate(pattern, th) ==
  IF pattern.qRotate THEN Rotate(pattern.offset, th) ELSE pattern.offset

\* WayPoint.__init__: target0 and glider0 in the plane anchored at the drifter
Target0(drifter, pattern) == PatternRotate(pattern, Theta(drifter.v))
Glider0(drifter, glider)  == Delta(drifter.latLon, glider.latLon)

\* WayPoint.__dt: the coefficients of 0 = a t^2 + b t + c
CoefA(drifter, glider, water) ==
  LET dv == VSub(drifter.v, water.v)
  IN  RSub(Dot(dv, dv), RMul(glider.speed, glider.speed))
CoefB(drifter, glider, water, pattern) ==
  LET d0 == VSub(Target0(drifter, pattern), Glider0(drifter, glider))
      dv == VSub(drifter.v, water.v)
  IN  RMul(R(2), Dot(d0, dv))
CoefC(drifter, glider, pattern) ==
  LET d0 == VSub(Target0(drifter, pattern), Glider0(drifter, glider))
  IN  Dot(d0, d0)

\* term = b * b - 4 * a * c, and the roots tp and tm of a t^2 + b t + c
Disc(a, b, c) == RSub(RMul(b, b), RMul(R(4), RMul(a, c)))
RootP(a, b, c) == RDiv(RAdd(RNeg(b), RSqrt(Disc(a, b, c))), RMul(R(2), a))
RootM(a, b, c) == RDiv(RSub(RNeg(b), RSqrt(Disc(a, b, c))), RMul(R(2), a))

\* SelectRoot taking the smaller root whatever its sign
SelectRoot_AnyMin(tp, tm) == Ret(RMin(tm, tp))

\* SelectRoot taking the larger of two non-negative roots
SelectRoot_Max(tp, tm) ==
  IF RLt(tp, Zero)
  THEN IF RLt(tm, Zero) THEN Raise("NoFutureSolution") ELSE Ret(tm)
  ELSE IF RLt(tm, Zero) THEN Ret(tp) ELSE Ret(RMax(tm, tp))

\* WayPoint.__dt, the choice between the roots tp and tm: the root
\* returned, or the exception raised
SelectRoot(tp, tm) ==
  IF RLt(tp, Zero)
  THEN IF RLt(tm, Zero) THEN Raise("NoFutureSolution") ELSE Ret(tm)
  ELSE IF RLt(tm, Zero) THEN Ret(tp) ELSE Ret(RMin(tm, tp))

\* QuadraticDt falling back to the linear equation b t + c = 0 when a = 0
QuadraticDt_Linear(a, b, c) ==
  IF a = Zero
  THEN IF b = Zero THEN Raise("NoSolution")
       ELSE SelectRoot(RDiv(RNeg(c), b), RDiv(RNeg(c), b))
  ELSE IF RLt(Disc(a, b, c), Zero) THEN Raise("NoRealSolution")
  ELSE SelectRoot(RootP(a, b, c), RootM(a, b, c))

\* QuadraticDt rejecting a zero discriminant as well
QuadraticDt_NoDouble(a, b, c) ==
  IF a = Zero THEN Raise("NoSolution")
  ELSE IF RLe(Disc(a, b, c), Zero) THEN Raise("NoRealSolution")
  ELSE SelectRoot(RootP(a, b, c), RootM(a, b, c))

\* WayPoint.__dt from "if a == 0" on: the time to the intercept, or the
\* exception raised
QuadraticDt(a, b, c) ==
  IF a = Zero THEN Raise("NoSolution")
  ELSE LET term == Disc(a, b, c)
       IN  IF RLt(term, Zero) THEN Raise("NoRealSolution")
           ELSE LET root == RSqrt(term)
                IN  SelectRoot(RDiv(RAdd(RNeg(b), root), RMul(R(2), a)),
                               RDiv(RSub(RNeg(b), root), RMul(R(2), a)))

Dt(drifter, glider, water, pattern) ==
  QuadraticDt(CoefA(drifter, glider, water),
              CoefB(drifter, glider, water, pattern),
              CoefC(drifter, glider, pattern))

\* MkWaypoint placing the waypoint at the offset from where the drifter
\* started instead of from where it is after dt
MkWaypoint_NoDrift(drifter, glider, pattern, dt) ==
  LET target0 == Target0(drifter, pattern)
      delta   == VMul(drifter.v, dt)
      wpt     == Translate(drifter.latLon, VSub(target0, PtI(0, 0)))
  IN  [dt       |-> dt,
       wptXY    |-> VAdd(target0, delta),
       wpt      |-> wpt,
       glider1  |-> Glider(wpt, glider.speed),
       drifter1 |-> Drifter(Translate(drifter.latLon, delta), drifter.v)]
\* MkWaypoint leaving the glider at the drifter's new position instead of at
\* the waypoint
MkWaypoint_GliderAtDrifter(drifter, glider, pattern, dt) ==
  LET target0 == Target0(drifter, pattern)
      delta   == VMul(drifter.v, dt)
      wpt     == Translate(drifter.latLon, VAdd(delta, VSub(target0, PtI(0, 0))))
  IN  [dt       |-> dt,
       wptXY    |-> VAdd(target0, delta),
       wpt      |-> wpt,
       glider1  |-> Glider(Translate(drifter.latLon, delta), glider.speed),
       drifter1 |-> Drifter(Translate(drifter.latLon, delta), drifter.v)]
\* WayPoint.__mkWaypoint: where the waypoint is, and the drifter and the
\* glider at the end of the leg
MkWaypoint(drifter, glider, pattern, dt) ==
  LET target0 == Target0(drifter, pattern)
      delta   == VMul(drifter.v, dt)
      wpt     == Translate(drifter.latLon, VAdd(delta, VSub(target0, PtI(0, 0))))
  IN  [dt       |-> dt,
       wptXY    |-> VAdd(target0, delta),
       wpt      |-> wpt,
       glider1  |-> Glider(wpt, glider.speed),
       drifter1 |-> Drifter(Translate(drifter.latLon, delta), drifter.v)]

\* WayPoint(drifter, glider, water, pattern): the constructed waypoint, or
\* the exception __dt raised
WayPoint(drifter, glider, water, pattern) ==
  LET r == Dt(drifter, glider, water, pattern)
  IN  IF r.ok THEN Ret(MkWaypoint(drifter, glider, pattern, r.val))
      ELSE Raise(r.err)

\* every square root WayPoint takes on these inputs is exact
Representable(drifter, glider, water, pattern) ==
  /\ pattern.qRotate => RIsSquare(Norm2(drifter.v))
  /\ LET a == CoefA(drifter, glider, water)
         b == CoefB(drifter, glider, water, pattern)
         c == CoefC(drifter, glider, pattern)
     IN  a = Zero \/ RLt(Disc(a, b, c), Zero) \/ RIsSquare(Disc(a, b, c))

\* LatLon.degMin(x): deg * 100 + decimal minutes, sign preserved
DegMin(x) ==
  LET a       == <<Abs(x[1]), x[2]>>
      deg     == a[1] \div a[2]
      minutes == RMul(Rat(a[1] % a[2], a[2]), R(60))
      val     == RAdd(R(deg * 100), minutes)
  IN  IF RLe(Zero, x) THEN val ELSE RNeg(val)

\* MkDegrees dropping the sign of its argument
MkDegrees_NoSign(y) ==
  LET yabs    == RAbs(y)
      d       == yabs[1] \div (100 * yabs[2])
      minutes == RSub(yabs, R(100 * d))
  IN  RAdd(R(d), RDiv(minutes, R(60)))
\* Dialog.py MyPattern.__mkDegrees(x) on the number y = float(x):
\* floor(|y| / 100) degrees and |y| % 100 minutes, sign preserved
MkDegrees(y) ==
  LET yabs    == RAbs(y)
      d       == yabs[1] \div (100 * yabs[2])
      minutes == RSub(yabs, R(100 * d))
      decDeg  == RAdd(R(d), RDiv(minutes, R(60)))
  IN  IF RLe(Zero, y) THEN decDeg ELSE RNeg(decDeg)

\* LatLon.goto(self): (degMin(lat), degMin(lon)); lat is the north
\* coordinate (y) and lon the east coordinate (x)
LatLonGoto(latLon) == <<DegMin(latLon.y), DegMin(latLon.x)>>

\* wpt.wpt.distance(other): class LatLon defines __init__, __repr__,
\* __sub__, delta, translate, degMin and goto, and no distance, so the
\* attribute lookup raises
Distance(latLon, other) == Raise("AttributeError")

\* "{:6f}".format(x) of WayPoints.goto: fixed-point notation with the default
\* six decimal places (the 6 is the minimum width, which a number with six
\* decimals always exceeds), rounded half to even.  A text is its sign, its
\* digits before the point, its digits after the point and their number.
Fixed(x, places) ==
  LET a     == RAbs(x)
      unit  == 10 ^ places
      whole == a[1] \div a[2]
      rest  == (a[1] % a[2]) * unit
      q     == rest \div a[2]
      r     == rest % a[2]
      up    == 2 * r > a[2] \/ (2 * r = a[2] /\ q % 2 = 1)
      f     == IF up THEN q + 1 ELSE q
  IN  [neg    |-> RLt(x, Zero),
       whole  |-> IF f = unit THEN whole + 1 ELSE whole,
       frac   |-> IF f = unit THEN 0 ELSE f,
       places |-> places]
Format6f(x) == Fixed(x, 6)

\* ---------------------------------------------------------------- Drifter.py
\* a row of table mom: time, position and accuracy of a fix
Fix(t, latLon, accuracy) == [t |-> t, latLon |-> latLon, accuracy |-> accuracy]

\* a column of values, held as a list
Column(s) == s \o <<>>
\* max(...) of a column
MaxOf(s) == CHOOSE m \in {s[i] : i \in 1..Len(s)} : \A i \in 1..Len(s) : RLe(s[i], m)
\* column / max(column)
Normalised(s) ==
  LET m == MaxOf(s) IN Column([i \in 1..Len(s) |-> RDiv(s[i], m)])

\* data['dt']: the seconds from the newest fix to every fix, none positive
Dts(f) ==
  LET tMax == MaxOf(Column([i \in 1..Len(f) |-> R(f[i].t)]))
  IN  Column([i \in 1..Len(f) |-> f[i].t - tMax[1]])

\* lines 93-105: the weight of every fix, 1 / accuracy^2 and the decay with
\* its age, each scaled to a maximum of 1 (in the plane a degree is a metre
\* north and east, so weightLat and weightLon are one column)
Weights(f) ==
  LET n      == Len(f)
      dts    == Dts(f)
      wghtA  == Normalised(Column([i \in 1..n |->
                  RDiv(R(1), RMul(R(f[i].accuracy), R(f[i].accuracy)))]))
      wghtDT == Column([i \in 1..n |-> Decay(dts[i])])
  IN  Normalised(Column([i \in 1..n |-> RMul(wghtA[i], wghtDT[i])]))

\* LinearRegression().fit(x, y, w): the weighted least-squares line; when
\* every x is the same (one sample too) the least-norm solution, slope 0
Fit(x, y, w) ==
  LET n    == Len(x)
      sw   == RSum(w)
      xbar == RDiv(RSum(Column([i \in 1..n |-> RMul(w[i], x[i])])), sw)
      ybar == RDiv(RSum(Column([i \in 1..n |-> RMul(w[i], y[i])])), sw)
      sxx  == RSum(Column([i \in 1..n |->
                RMul(w[i], RMul(RSub(x[i], xbar), RSub(x[i], xbar)))]))
      sxy  == RSum(Column([i \in 1..n |->
                RMul(w[i], RMul(RSub(x[i], xbar), RSub(y[i], ybar)))]))
      coef == IF sxx = Zero THEN Zero ELSE RDiv(sxy, sxx)
  IN  [coef |-> coef, intercept |-> RSub(ybar, RMul(coef, xbar))]
\* lm.predict
Predict(lm, x) == RAdd(lm.intercept, RMul(lm.coef, x))

\* geodesic(p, q).meters for q at d degrees north or east of p: a distance
Meters(d) == RAbs(d)

\* the lines fitted through the latitudes and the longitudes of the fixes
Ages(f)   == LET dts == Dts(f) IN Column([i \in 1..Len(f) |-> R(dts[i])])
LatFit(f) == Fit(Ages(f), Column([i \in 1..Len(f) |-> f[i].latLon.y]), Weights(f))
LonFit(f) == Fit(Ages(f), Column([i \in 1..Len(f) |-> f[i].latLon.x]), Weights(f))

\* no drifter state
NoState ==
  [some |-> FALSE, val |-> [lat |-> Zero, lon |-> Zero, vx |-> Zero, vy |-> Zero]]

\* Drifter.estimate(t), t being tt seconds after the newest fix: None when
\* __fetch found no row, else the position predicted and the velocity
Estimate(f, tt) ==
  IF Len(f) = 0 THEN Ret(NoState)
  ELSE LET lmLat == LatFit(f)
           lmLon == LonFit(f)
       IN  Ret(Some([lat |-> Predict(lmLat, R(tt)),
                     vy  |-> Meters(lmLat.coef),
                     lon |-> Predict(lmLon, R(tt)),
                     vx  |-> Meters(lmLon.coef)]))

\* -------------------------------------------------------------- WayPoints.py
VARIABLES
  drifter, glider, water, patterns, args, startIndex,   \* constructor arguments
  db,          \* rows of the latest generation of table waypoints, by iWaypoint
  pc,          \* where the planning call is: "start", "find" (in
               \* __findClosest), "loop" (in the leg loop), "raised" (__init__
               \* raised err), "built" (__init__ returned), "done" (goto
               \* returned result), "gotoRaised" (goto raised err)
  index,       \* local index of __init__
  selfIndex,   \* self.index
  dt,          \* local dt of __init__: cumulative time
  self,        \* the list itself: <<(wpt, dt, index), ...>>
  drft, gld,   \* chained drifter and glider
  iters,       \* iterations of the leg loop so far
  fi, tMin, fIndex,   \* __findClosest: loop variable i, tMin, index
  err,         \* the exception that ended the call, or "none"
  result       \* what goto returned: (goto, maxDist)

\* ---------------------------------------------------------------- Update.py
VARIABLES
  queue,     \* Update.__queue: the requests put and not yet taken, oldest first
  nPut,      \* requests put so far; request k is the k-th put
  files,     \* the pattern file: files[t] is its definition of modification
             \* time t, the last one the file as it is now
  cache,     \* __pattern, __patternTime, __patternEnabled, __newPattern
  wpts,      \* self.wpts: None or the WayPoints last constructed
  info,      \* the telemetry __loadDB returned for the request
  upc,       \* where the worker is in runAndCatch: "off" (no worker), "get",
             \* "pattern", "load", "mkgoto", "plan" (in WayPoints(...) and
             \* goto), "taskdone", "dead" (an exception left runAndCatch)
  cur,       \* the request taken by q.get(), 0 when none
  taskDone,  \* calls of q.task_done() so far
  began,     \* the requests in the order q.get() returned them
  ended,     \* the requests in the order they were marked done
  failed,    \* the requests whose handling raised an exception
  fresh,     \* __newPattern as __getIndex saw it in the planning call of cur
  issued,    \* the last plan whose text goto returned
  out,       \* (goto, maxDist) last handed to the delivery threads
  gliderDB,  \* table glider of dbName as __loadDB last read it: the request
             \* it was read for and its m_avg_speed rows, newest first
  raisedAt       \* where the handling of cur raised: "none", "getPattern",
             \* "loadDB", "mkGoto" (before the try) or "WayPoints"

upd == <<queue, nPut, files, cache, wpts, info, upc, cur, taskDone, began,
         ended, failed, fresh, issued, out, gliderDB, raisedAt>>

\* ------------------------------------------- Drifter.py and LatLon.goto
VARIABLES
  fixes,     \* the rows Drifter.__fetch reads from table mom, newest first
  at,        \* seconds from the newest fix to the time t of estimate(t)
  est,       \* what Drifter.estimate returned
  deg,       \* a latitude or longitude in decimal degrees
  enc,       \* deg as goto writes it in a waypoint line
  dec,       \* what the dialog decodes from degMin(deg)
  cpc        \* "off", "input" (before the call), "output" (after it) or
             \* "decoded" (after the dialog decoded the value)

calc == <<fixes, at, est, deg, enc, dec, cpc>>

\* ------------------------------------------- Update.py, the delivery threads
VARIABLES
  box,       \* box[k]: the queue of delivery thread k, oldest item first
  done,      \* done[k]: calls of q.task_done() by delivery thread k
  alive,     \* alive[k]: thread k is in its loop; FALSE once an exception
             \* left runAndCatch and run() logged it
  effects,   \* effects[k]: what thread k did with every item it took
  sent,      \* the results the planning thread handed to the threads
  wait       \* where the caller of Update.waitToFinish is

dlv == <<box, done, alive, effects, sent, wait>>

inputs == <<drifter, glider, water, patterns, args, startIndex, db>>
locals == <<index, selfIndex, dt, self, drft, gld, iters>>
finds  == <<fi, tMin, fIndex>>
vars   == <<drifter, glider, water, patterns, args, startIndex, db, pc, index,
            selfIndex, dt, self, drft, gld, iters, fi, tMin, fIndex, err, result,
            queue, nPut, files, cache, wpts, info, upc, cur, taskDone, began,
            ended, failed, fresh, issued, out, gliderDB, raisedAt,
            fixes, at, est, deg, enc, dec, cpc,
            box, done, alive, effects, sent, wait>>

NoneR    == [some |-> FALSE, val |-> Zero]
\* no plan text: None where goto returns a text
NoGoto   == [some |-> FALSE,
             val  |-> [num_legs_to_run |-> 0, initial_wpt |-> 0,
                       num_waypoints |-> 0, waypoints |-> <<>>]]
NoResult == [goto |-> NoGoto, maxDist |-> NoneR]

\* ------------------------------------------------------- bounded inputs
Origin      == PtI(0, 0)
\* <<drifter velocity, current>>: at rest; drifting north, in still water
\* and against a southward current; drifting north-east
Flows       == {<<PtI(0, 0), PtI(0, 0)>>, <<PtI(0, 1), PtI(0, 0)>>,
                <<PtI(0, 1), PtI(0, -1)>>, <<PtI(1, 1), PtI(0, 0)>>}
Speeds      == {R(1), R(2)}
GliderAt    == {PtI(0, 0), PtI(0, 3)}
Offsets     == {PtI(0, 3), PtI(0, -3)}
Catalogs    == UNION {[1..n -> Offsets] : n \in 0..MaxPatterns}
TgtDurations == {0, 4}
MinDurations == {4}
Radii       == {1}
StartIndexes == {None} \cup {Some(i) : i \in 0..MaxPatterns}
\* wptsDB: whether a history database is named
ArgSets(dbs) ==
  [wptsCount : 0..MaxCount, wptsTgtDuration : TgtDurations,
   wptsMinDuration : MinDurations, wptsMatchRadius : Radii, wptsDB : dbs]

\* a row of table waypoints (t is the same in every row of a generation and
\* distance is never read back)
Row(i, latLon, iPattern, rdt) ==
  [iWaypoint |-> i, latLon |-> latLon, iPattern |-> iPattern, dt |-> rdt]

\* every solve a planning call can make on these arguments is exact: each
\* pattern from the initial state (the first leg, the closest-in-time
\* search), and each pattern from the end of the leg of the pattern before it
AllRepresentable(d, g, w, ps) ==
  /\ \A i \in 1..Len(ps) : Representable(d, g, w, ps[i])
  /\ \A i \in 1..Len(ps) :
       LET j == IF i = Len(ps) THEN 1 ELSE i + 1
       IN  Representable(Drifter(Origin, d.v),
                         Glider(Target0(d, ps[i]), g.speed), w, ps[j])

\* Update.__init__: nothing loaded, no plan made
NoCache  == [pattern |-> [some |-> FALSE, val |-> <<>>], patternTime |-> None,
             patternEnabled |-> FALSE, newPattern |-> TRUE]
NoInfo   == [c_wpt |-> [some |-> FALSE, val |-> Origin], m_avg_speed |-> NoneR]
NoGliderDB == [request |-> 0, speeds |-> <<>>]
\* the plan object kept in self.wpts, and no plan
Plan(slf, ps) == [legs |-> slf, patterns |-> ps]
NoPlan   == [some |-> FALSE, val |-> Plan(<<>>, <<>>)]

\* a planning call made directly (WayPoints.py __main__), without the worker
NoUpdate ==
  /\ queue = <<>> /\ nPut = 0 /\ files = <<>>
  /\ cache = NoCache /\ wpts = NoPlan /\ info = NoInfo
  /\ upc = "off" /\ cur = 0 /\ taskDone = 0
  /\ began = <<>> /\ ended = <<>> /\ failed = {}
  /\ fresh = FALSE /\ issued = NoPlan /\ out = NoResult
  /\ gliderDB = NoGliderDB /\ raisedAt = "none"

\* no call of the drifter estimator or of the goto encoding
NoText   == [neg |-> FALSE, whole |-> 0, frac |-> 0, places |-> 0]
NoCalc ==
  /\ fixes = <<>> /\ at = 0 /\ est = Ret(NoState)
  /\ deg = Zero /\ enc = NoText /\ dec = Zero
  /\ cpc = "off"

\* Update.__init__: the four delivery threads in the order of __threads,
\* their queues empty, and nobody in waitToFinish
Threads == <<"API", "MailTo", "Archiver", "Filer">>
NotWaiting == [at |-> "off", thr |-> 0]
NoDelivery ==
  /\ box = [k \in 1..Len(Threads) |-> <<>>]
  /\ done = [k \in 1..Len(Threads) |-> 0]
  /\ alive = [k \in 1..Len(Threads) |-> TRUE]
  /\ effects = [k \in 1..Len(Threads) |-> <<>>]
  /\ sent = <<>>
  /\ wait = NotWaiting

\* the planning call at its start
AtStart ==
  /\ pc = "start"
  /\ index = None /\ selfIndex = None
  /\ dt = Zero /\ self = <<>>
  /\ drft = drifter /\ gld = glider
  /\ iters = 0
  /\ fi = 0 /\ tMin = NoneR /\ fIndex = None
  /\ err = "none"
  /\ result = NoResult

Init ==
  /\ \E f \in Flows : drifter = Drifter(Origin, f[1]) /\ water = Water(f[2])
  /\ \E p \in GliderAt, s \in Speeds : glider = Glider(p, s)
  /\ \E offs \in Catalogs, q \in BOOLEAN :
       patterns = [i \in 1..Len(offs) |-> Pattern(offs[i], q)]
  /\ AllRepresentable(drifter, glider, water, patterns) = TRUE
  /\ args \in ArgSets({FALSE})
  /\ startIndex \in StartIndexes
  /\ db = <<>>
  /\ AtStart
  /\ NoUpdate
  /\ NoCalc
  /\ NoDelivery

\* histories left by earlier plans around the pattern point (0, 3): rows of
\* pattern index 0 or 1, at the point or 2 m north of it, 3 s each
HIndexes   == {0, 1}
HPoints    == {PtI(0, 3), PtI(0, 5)}
HRows      == {Row(0, p, k, R(3)) : p \in HPoints, k \in HIndexes}
Histories  ==
  {[i \in 1..Len(h) |-> [h[i] EXCEPT !.iWaypoint = i - 1]] :
     h \in UNION {[1..n -> HRows] : n \in 0..MaxPrev}}

\* a drifter at rest in still water, the glider on it at 1 m/s, and a
\* history in the database
InitHistory ==
  /\ drifter = Drifter(Origin, PtI(0, 0))
  /\ water = Water(PtI(0, 0))
  /\ glider = Glider(Origin, R(1))
  /\ \E offs \in Catalogs : patterns = [i \in 1..Len(offs) |-> Pattern(offs[i], FALSE)]
  /\ AllRepresentable(drifter, glider, water, patterns) = TRUE
  /\ args \in ArgSets(BOOLEAN)
  /\ startIndex \in {None, Some(0)}
  /\ db \in Histories
  /\ AtStart
  /\ NoUpdate
  /\ NoCalc
  /\ NoDelivery

\* WayPoints.__init__ up to the leg loop: self.index = index, dt = 0, the
\* copies of drifter and glider, and the call of __findClosest when index is
\* None
Start ==
  /\ pc = "start"
  /\ index' = startIndex
  /\ selfIndex' = startIndex
  /\ dt' = Zero
  /\ drft' = drifter /\ gld' = glider
  /\ pc' = IF startIndex.some THEN "loop" ELSE "find"
  /\ fi' = 0 /\ tMin' = NoneR /\ fIndex' = None
  /\ UNCHANGED <<inputs, self, iters, err, result>>
  /\ UNCHANGED <<upd, calc, dlv>>

\* FindUpdate keeping the last minimum found
FindUpdate_Last(tm, idx, wdt, i) ==
  IF ~tm.some THEN <<Some(wdt), Some(i)>>
  ELSE IF RLe(wdt, tm.val) THEN <<Some(wdt), Some(i)>>
       ELSE <<tm, idx>>

\* the body of the loop of __findClosest after the solve: the new
\* (tMin, index) for the dt of pattern i
FindUpdate(tm, idx, wdt, i) ==
  IF ~tm.some THEN <<Some(wdt), Some(i)>>
  ELSE IF RLt(wdt, tm.val) THEN <<Some(wdt), Some(i)>>
       ELSE <<tm, idx>>

\* one iteration of the loop of __findClosest
FindStep ==
  /\ pc = "find"
  /\ fi < Len(patterns)
  /\ LET wpt == WayPoint(drifter, glider, water, patterns[fi + 1])
     IN  IF ~wpt.ok
         THEN /\ pc' = "raised" /\ err' = wpt.err
              /\ UNCHANGED finds
         ELSE /\ tMin' = FindUpdate(tMin, fIndex, wpt.val.dt, fi)[1]
              /\ fIndex' = FindUpdate(tMin, fIndex, wpt.val.dt, fi)[2]
              /\ fi' = fi + 1
              /\ UNCHANGED <<pc, err>>
  /\ UNCHANGED <<inputs, locals, result>>
  /\ UNCHANGED <<upd, calc, dlv>>

\* __findClosest returns index; __init__ stores it in index and self.index
FindReturn ==
  /\ pc = "find"
  /\ fi = Len(patterns)
  /\ index' = fIndex /\ selfIndex' = fIndex
  /\ pc' = "loop"
  /\ UNCHANGED <<inputs, dt, self, drft, gld, iters, finds, err, result>>
  /\ UNCHANGED <<upd, calc, dlv>>

\* LoopGuard letting the plan grow one leg past wptsCount
LoopGuard_OffByOne ==
  /\ RLe(dt, R(args.wptsTgtDuration)) \/ Len(self) < 2
  /\ Len(self) <= args.wptsCount

\* LoopGuard without the two-leg minimum
LoopGuard_NoMinimum ==
  /\ RLe(dt, R(args.wptsTgtDuration)) \/ Len(self) < 1
  /\ Len(self) < args.wptsCount

\* LoopGuard comparing the elapsed time with < instead of <=
LoopGuard_Strict ==
  /\ RLt(dt, R(args.wptsTgtDuration)) \/ Len(self) < 2
  /\ Len(self) < args.wptsCount
\* the condition of the while loop of __init__
LoopGuard ==
  /\ RLe(dt, R(args.wptsTgtDuration)) \/ Len(self) < 2
  /\ Len(self) < args.wptsCount

\* WrapIndex wrapping one entry too late
WrapIndex_Late(i, n) == IF i > n THEN 0 ELSE i
\* "if index >= len(patterns): index = 0"
WrapIndex(i, n) == IF i >= n THEN 0 ELSE i

\* one iteration of the leg loop; index None >= len(patterns) is a
\* TypeError, patterns[0] of an empty list an IndexError
LegStep ==
  /\ pc = "loop"
  /\ LoopGuard
  /\ iters' = iters + 1
  /\ IF ~index.some
     THEN /\ pc' = "raised" /\ err' = "TypeError"
          /\ UNCHANGED <<index, dt, self, drft, gld>>
     ELSE LET i == WrapIndex(index.val, Len(patterns))
          IN  IF i >= Len(patterns)
              THEN /\ pc' = "raised" /\ err' = "IndexError"
                   /\ UNCHANGED <<index, dt, self, drft, gld>>
              ELSE LET wpt == WayPoint(drft, gld, water, patterns[i + 1])
                   IN  IF ~wpt.ok
                       THEN /\ pc' = "raised" /\ err' = wpt.err
                            /\ UNCHANGED <<index, dt, self, drft, gld>>
                       ELSE /\ dt' = RAdd(dt, wpt.val.dt)
                            /\ self' = Append(self,
                                 [wpt |-> wpt.val, dt |-> dt', index |-> i])
                            /\ drft' = wpt.val.drifter1
                            /\ gld' = wpt.val.glider1
                            /\ index' = Some(i + 1)
                            /\ UNCHANGED <<pc, err>>
  /\ UNCHANGED <<inputs, selfIndex, finds, result>>
  /\ UNCHANGED <<upd, calc, dlv>>

\* the while condition is false: __init__ returns the plan
LoopExit ==
  /\ pc = "loop"
  /\ ~LoopGuard
  /\ pc' = "built"
  /\ UNCHANGED <<inputs, locals, finds, err, result>>
  /\ UNCHANGED <<upd, calc, dlv>>

\* WayPoints.__checkForward(prev) from iteration i on, with the totalTime
\* and maxDist accumulated so far; dt is the dt of the row of prev
RECURSIVE CheckForwardFrom(_, _, _, _, _, _)
CheckForwardFrom(slf, prev, a, i, totalTime, maxDist) ==
  LET n == IF Len(prev) < Len(slf) THEN Len(prev) ELSE Len(slf)
  IN  IF i > n
      THEN Ret(IF RLe(R(a.wptsMinDuration), totalTime)
               THEN Some(maxDist) ELSE NoneR)
      ELSE IF slf[i].index # prev[i].iPattern
           THEN Ret(NoneR)
           ELSE LET delta == Distance(slf[i].wpt.wpt, prev[i].latLon)
                IN  IF ~delta.ok THEN Raise(delta.err)
                    ELSE IF RLt(R(a.wptsMatchRadius), delta.val)
                         THEN Ret(NoneR)
                         ELSE CheckForwardFrom(slf, prev, a, i + 1,
                                RAdd(totalTime, prev[i].dt),
                                RMax(maxDist, delta.val))

CheckForward(slf, prev, a) == CheckForwardFrom(slf, prev, a, 1, Zero, Zero)

\* WayPoints.__closeEnough(prev) from row j on (rows are numbered from 1)
RECURSIVE CloseEnoughFrom(_, _, _, _)
CloseEnoughFrom(slf, prev, a, j) ==
  IF j > Len(prev) THEN Ret(NoneR)
  ELSE IF prev[j].iPattern = slf[1].index
       THEN LET maxDist == CheckForward(slf, SubSeq(prev, j, Len(prev)), a)
            IN  IF ~maxDist.ok THEN Raise(maxDist.err)
                ELSE IF maxDist.val.some THEN Ret(maxDist.val)
                     ELSE CloseEnoughFrom(slf, prev, a, j + 1)
       ELSE CloseEnoughFrom(slf, prev, a, j + 1)

\* self[0] of an empty plan is an IndexError
CloseEnough(slf, prev, a) ==
  IF Len(slf) = 0 THEN Raise("IndexError") ELSE CloseEnoughFrom(slf, prev, a, 1)

\* the INSERT loop of __qGenGoto from leg i on: the rows written, or the
\* exception raised
RECURSIVE InsertRows(_, _, _, _)
InsertRows(slf, i, prevLatLon, rows) ==
  IF i > Len(slf) THEN Ret(rows)
  ELSE LET dist == Distance(slf[i].wpt.wpt, prevLatLon)
       IN  IF ~dist.ok THEN Raise(dist.err)
           ELSE InsertRows(slf, i + 1, slf[i].wpt.wpt,
                  Append(rows, Row(i - 1, slf[i].wpt.wpt, slf[i].index, slf[i].dt)))

\* WayPoints.__qGenGoto: [ok, err, maxDist, db]: the maximum distance when
\* the new plan is close enough to the latest generation, None otherwise,
\* and the latest generation afterwards (an exception inside the connection
\* context rolls the inserts back)
QGenGoto(slf, g, a, rows) ==
  IF ~a.wptsDB
  THEN [ok |-> TRUE, err |-> "none", maxDist |-> NoneR, db |-> rows]
  ELSE LET maxDist == CloseEnough(slf, rows, a)
       IN  IF ~maxDist.ok
           THEN [ok |-> FALSE, err |-> maxDist.err, maxDist |-> NoneR, db |-> rows]
           ELSE IF maxDist.val.some
                THEN [ok |-> TRUE, err |-> "none", maxDist |-> maxDist.val, db |-> rows]
                ELSE LET ins == InsertRows(slf, 1, g.latLon, <<>>)
                     IN  IF ~ins.ok
                         THEN [ok |-> FALSE, err |-> ins.err, maxDist |-> NoneR,
                               db |-> rows]
                         ELSE [ok |-> TRUE, err |-> "none", maxDist |-> NoneR,
                               db |-> IF Len(slf) = 0 THEN rows ELSE ins.val]

\* the waypoint lines of the goto text from leg i on
RECURSIVE WaypointLines(_, _, _, _)
WaypointLines(slf, i, prevLatLon, lines) ==
  IF i > Len(slf) THEN Ret(lines)
  ELSE LET latLon == LatLonGoto(slf[i].wpt.wpt)
           dist   == Distance(slf[i].wpt.wpt, prevLatLon)
       IN  IF ~dist.ok THEN Raise(dist.err)
           ELSE WaypointLines(slf, i + 1, slf[i].wpt.wpt,
                  Append(lines, [lon |-> Format6f(latLon[2]),
                                 lat |-> Format6f(latLon[1]),
                                 index |-> slf[i].index, dist |-> dist.val,
                                 t |-> slf[i].dt]))

\* GotoText declaring one waypoint more than the plan has legs
GotoText_Count(slf, g) ==
  LET lines == WaypointLines(slf, 1, g.latLon, <<>>)
  IN  IF ~lines.ok THEN Raise(lines.err)
      ELSE Ret([num_legs_to_run |-> -2, initial_wpt |-> 0,
                num_waypoints |-> Len(slf) + 1, waypoints |-> lines.val])
\* the text WayPoints.goto builds: the b_arg block and the waypoint lines
GotoText(slf, g) ==
  LET lines == WaypointLines(slf, 1, g.latLon, <<>>)
  IN  IF ~lines.ok THEN Raise(lines.err)
      ELSE Ret([num_legs_to_run |-> -2, initial_wpt |-> 0,
                num_waypoints |-> Len(slf), waypoints |-> lines.val])

\* GotoResult returning a maximum deviation of 0.0 next to the text
GotoResult_Both(maxDist, text) ==
  [goto |-> text, maxDist |-> IF text.some THEN Some(Zero) ELSE maxDist]

\* the tuple goto returns: (None, maxDist) or ("\n".join(msg), None)
GotoResult(maxDist, text) == [goto |-> text, maxDist |-> maxDist]

\* WayPoints.goto(t0, IMEI) on the plan __init__ built
Goto ==
  /\ pc = "built"
  /\ LET q == QGenGoto(self, glider, args, db)
     IN  /\ db' = q.db
         /\ IF ~q.ok
            THEN pc' = "gotoRaised" /\ err' = q.err /\ UNCHANGED result
            ELSE IF q.maxDist.some
                 THEN /\ result' = GotoResult(q.maxDist, NoGoto)
                      /\ pc' = "done" /\ UNCHANGED err
                 ELSE LET text == GotoText(self, glider)
                      IN  IF ~text.ok
                          THEN pc' = "gotoRaised" /\ err' = text.err /\ UNCHANGED result
                          ELSE /\ result' = GotoResult(NoneR, Some(text.val))
                               /\ pc' = "done" /\ UNCHANGED err
  /\ UNCHANGED <<drifter, glider, water, patterns, args, startIndex, locals, finds>>
  /\ UNCHANGED <<upd, calc, dlv>>

Next == Start \/ FindStep \/ FindReturn \/ LegStep \/ LoopExit \/ Goto

Spec == Init /\ [][Next]_vars

SpecHistory == InitHistory /\ [][Next]_vars

\* planning calls behind a drifter that moves north, the glider on it, 3 m
\* north of it or 3 m west of that, so that an offset turned to the drifter's
\* heading can be reached
MovingFlows == {<<PtI(0, 1), PtI(0, 0)>>, <<PtI(0, 1), PtI(0, -1)>>}
GliderFrom  == GliderAt \cup {PtI(-3, 3)}
InitIntercept ==
  /\ \E f \in MovingFlows : drifter = Drifter(Origin, f[1]) /\ water = Water(f[2])
  /\ \E p \in GliderFrom, s \in Speeds : glider = Glider(p, s)
  /\ \E offs \in Catalogs, q \in BOOLEAN :
       patterns = [i \in 1..Len(offs) |-> Pattern(offs[i], q)]
  /\ AllRepresentable(drifter, glider, water, patterns) = TRUE
  /\ args \in ArgSets({FALSE})
  /\ startIndex \in StartIndexes
  /\ db = <<>>
  /\ AtStart
  /\ NoUpdate
  /\ NoCalc
  /\ NoDelivery
SpecIntercept == InitIntercept /\ [][Next]_vars

\* ------------------------------------------------------- the update worker
MaxRequests == 2   \* planning requests put to the worker
MaxWrites   == 2   \* times the pattern file is written

\* what the pattern file holds for args.glider: kind "ok" (an entry with
\* enabled: true), "noFlag" (an entry without the key enabled, here without
\* the key pattern too, which Patterns reads as an empty list), "disabled"
\* (enabled: false), "noGlider" (no entry for the glider), "invalid"
\* (Patterns(fn) raises) or "missing" (os.path.isfile is false)
Definition(kind, catalog) == [kind |-> kind, patterns |-> catalog]
CatalogA    == <<Pattern(PtI(0, 3), FALSE), Pattern(PtI(0, -3), FALSE)>>
CatalogB    == <<Pattern(PtI(0, -3), FALSE)>>
Definitions ==
  {Definition("ok", CatalogA), Definition("ok", CatalogB),
   Definition("noFlag", <<>>),
   Definition("disabled", CatalogA), Definition("noGlider", <<>>),
   Definition("invalid", <<>>), Definition("missing", <<>>)}

\* the commanded waypoint the telemetry may carry (c_wpt_lat, c_wpt_lon)
Infos == {NoInfo, [c_wpt |-> Some(PtI(0, -3)), m_avg_speed |-> NoneR]}

\* the m_avg_speed rows of table glider, newest first: none, or one of 1 m/s
SpeedRow(t, val) == [t |-> t, val |-> val]
SpeedRows == {<<>>, <<SpeedRow(0, R(1))>>}

\* Update.__loadDB: the latest value of every name (inf, which holds
\* m_avg_speed when the table has a row of it), then the weighted mean of
\* the last m_avg_speed rows; max(times) of no row is a ValueError
LoadDB(inf, rows) ==
  IF Len(rows) = 0 THEN Raise("ValueError")
  ELSE LET tMax  == MaxOf(Column([i \in 1..Len(rows) |-> R(rows[i].t)]))
           wght  == Column([i \in 1..Len(rows) |-> Decay(rows[i].t - tMax[1])])
           denom == RSum(wght)
           numer == RSum(Column([i \in 1..Len(rows) |->
                      RMul(rows[i].val, wght[i])]))
       IN  Ret([inf EXCEPT !.m_avg_speed =
                  IF denom # Zero THEN Some(RDiv(numer, denom))
                  ELSE Some(rows[1].val)])

\* Update.__mkGlider: "spd = info["m_avg_speed"] if "m_avg_speed" in info
\* else 0.3"; the glider of the model surfaces at the origin
DefaultSpeed == Rat(3, 10)
MkGlider(inf) ==
  Glider(Origin, IF inf.m_avg_speed.some THEN inf.m_avg_speed.val
                 ELSE DefaultSpeed)

UpdateArgs ==
  [wptsCount : {0, 2}, wptsTgtDuration : {0}, wptsMinDuration : {4},
   wptsMatchRadius : {1}, wptsDB : BOOLEAN, gotoIndex : {Some(R(1))}]

\* Update.put and q.get() on queue.Queue, first in first out
Enqueue(q, item) == Append(q, item)

\* Dequeue taking the request put last
Dequeue_Lifo(q) == [item |-> q[Len(q)], rest |-> SubSeq(q, 1, Len(q) - 1)]

Dequeue(q) == [item |-> Head(q), rest |-> Tail(q)]

\* QEnabled taking every entry as enabled
QEnabled_Always(f) == TRUE
\* Patterns.qEnabled(glider): False without an entry for the glider, True
\* for an entry without the key enabled, else the value of the key
QEnabled(f) ==
  IF f.kind = "noGlider" THEN FALSE
  ELSE IF f.kind = "noFlag" THEN TRUE
  ELSE f.kind = "ok"

\* Update.__getPattern(glider) with the file holding definition f of
\* modification time t: whether it returned, and the cache afterwards
GetPattern(c, f, t) ==
  IF f.kind = "missing" THEN [ok |-> FALSE, cache |-> c]
  ELSE IF ~c.pattern.some \/ t > c.patternTime.val
       THEN IF f.kind = "invalid" THEN [ok |-> FALSE, cache |-> c]
            ELSE IF f.kind = "noGlider"
                 THEN [ok |-> FALSE,
                       cache |-> [c EXCEPT !.patternTime = Some(t)]]
                 ELSE [ok |-> TRUE,
                       cache |-> [pattern |-> Some(f.patterns),
                                  patternTime |-> Some(t),
                                  patternEnabled |-> QEnabled(f),
                                  newPattern |-> TRUE]]
       ELSE [ok |-> TRUE, cache |-> c]

\* the loop of __getIndex from leg i on; distances are compared by their
\* squares
RECURSIVE MinIndexFrom(_, _, _, _, _)
MinIndexFrom(legs, i, cLatLon, minDistance2, minIndex) ==
  IF i > Len(legs) THEN minIndex
  ELSE LET dist2 == Norm2(VSub(legs[i].wpt.wpt, cLatLon))
       IN  IF RLt(dist2, minDistance2)
           THEN MinIndexFrom(legs, i + 1, cLatLon, dist2, Some(legs[i].index))
           ELSE MinIndexFrom(legs, i + 1, cLatLon, minDistance2, minIndex)

\* GetIndex taking the index from the plan kept although the catalog was
\* just reloaded
GetIndex_IgnoreReload(w, c, a, inf) ==
  IF ~w.some THEN None
  ELSE IF ~a.gotoIndex.some \/ RLe(a.gotoIndex.val, Zero) THEN None
  ELSE IF ~inf.c_wpt.some THEN None
  ELSE MinIndexFrom(w.val.legs, 1, inf.c_wpt.val,
                    RMul(a.gotoIndex.val, a.gotoIndex.val), None)

\* Update.__getIndex(info)
GetIndex(w, c, a, inf) ==
  IF ~w.some \/ c.newPattern THEN None
  ELSE IF ~a.gotoIndex.some \/ RLe(a.gotoIndex.val, Zero) THEN None
  ELSE IF ~inf.c_wpt.some THEN None
  ELSE MinIndexFrom(w.val.legs, 1, inf.c_wpt.val,
                    RMul(a.gotoIndex.val, a.gotoIndex.val), None)

\* Caught without the try block around __loadDB and __mkGoto
Caught_InnerOnly(site) == site \in {"getPattern", "WayPoints"}

\* an exception raised at site is caught inside the loop of runAndCatch: in
\* __getPattern by lines 427-433, in __loadDB and in __mkGoto before its
\* try by lines 435-441, in WayPoints(...) and goto by lines 403-410
Caught(site) == site \in {"getPattern", "loadDB", "mkGoto", "WayPoints"}

InitUpdate ==
  /\ drifter = Drifter(Origin, PtI(0, 0))
  /\ water = Water(PtI(0, 0))
  /\ glider = Glider(Origin, R(1))
  /\ patterns = <<>>
  /\ args \in UpdateArgs
  /\ startIndex = None
  /\ db = <<Row(0, PtI(0, 3), 0, R(3))>>
  /\ pc = "idle"
  /\ index = None /\ selfIndex = None
  /\ dt = Zero /\ self = <<>>
  /\ drft = drifter /\ gld = glider
  /\ iters = 0
  /\ fi = 0 /\ tMin = NoneR /\ fIndex = None
  /\ err = "none"
  /\ result = NoResult
  /\ queue = <<>> /\ nPut = 0
  /\ files \in [1..1 -> Definitions]
  /\ cache = NoCache /\ wpts = NoPlan /\ info = NoInfo
  /\ upc = "get" /\ cur = 0 /\ taskDone = 0
  /\ began = <<>> /\ ended = <<>> /\ failed = {}
  /\ fresh = FALSE /\ issued = NoPlan /\ out = NoResult
  /\ gliderDB = NoGliderDB /\ raisedAt = "none"
  /\ NoCalc
  /\ NoDelivery

planning == <<drifter, glider, water, patterns, args, startIndex, db, pc,
              locals, finds, err, result>>

\* Update.put(t, dbName), by the dialog thread
Put ==
  /\ nPut < MaxRequests
  /\ nPut' = nPut + 1
  /\ queue' = Enqueue(queue, nPut + 1)
  /\ UNCHANGED <<planning, files, cache, wpts, info, upc, cur, taskDone,
                 began, ended, failed, fresh, issued, out, gliderDB, raisedAt>>
  /\ UNCHANGED <<calc, dlv>>

\* the pattern file is written (or removed): a newer modification time
WriteFile ==
  /\ Len(files) < MaxWrites
  /\ \E f \in Definitions : files' = Append(files, f)
  /\ UNCHANGED <<planning, queue, nPut, cache, wpts, info, upc, cur, taskDone,
                 began, ended, failed, fresh, issued, out, gliderDB, raisedAt>>
  /\ UNCHANGED <<calc, dlv>>

\* (t, dbName) = q.get()
Get ==
  /\ upc = "get"
  /\ queue # <<>>
  /\ cur' = Dequeue(queue).item
  /\ queue' = Dequeue(queue).rest
  /\ began' = Append(began, cur')
  /\ fresh' = FALSE
  /\ raisedAt' = "none"
  /\ upc' = "pattern"
  /\ UNCHANGED <<planning, nPut, files, cache, wpts, info, taskDone, ended,
                 failed, issued, out, gliderDB>>
  /\ UNCHANGED <<calc, dlv>>

\* lines 427-434: __getPattern; on an exception task_done and continue;
\* otherwise on to __loadDB when the pattern is enabled, to the final
\* task_done when it is not
LoopGetPattern ==
  /\ upc = "pattern"
  /\ LET r == GetPattern(cache, files[Len(files)], Len(files))
     IN  /\ cache' = r.cache
         /\ IF ~r.ok
            THEN /\ failed' = failed \cup {cur}
                 /\ raisedAt' = "getPattern"
                 /\ IF Caught("getPattern")
                    THEN /\ taskDone' = taskDone + 1
                         /\ ended' = Append(ended, cur)
                         /\ upc' = "get"
                    ELSE upc' = "dead" /\ UNCHANGED <<taskDone, ended>>
            ELSE /\ upc' = IF r.cache.patternEnabled THEN "load" ELSE "taskdone"
                 /\ UNCHANGED <<taskDone, ended, failed, raisedAt>>
  /\ UNCHANGED <<planning, queue, nPut, files, wpts, info, cur, began, fresh,
                 issued, out, gliderDB>>
  /\ UNCHANGED <<calc, dlv>>

\* info = self.__loadDB(dbName) on the table the dialog left: the telemetry,
\* or the exception of __loadDB
LoopLoadDB ==
  /\ upc = "load"
  /\ \E inf \in Infos, rows \in SpeedRows :
       LET r == LoadDB(inf, rows)
       IN  /\ gliderDB' = [request |-> cur, speeds |-> rows]
           /\ IF r.ok
              THEN /\ info' = r.val
                   /\ upc' = "mkgoto"
                   /\ UNCHANGED <<failed, raisedAt>>
              ELSE /\ failed' = failed \cup {cur}
                   /\ raisedAt' = "loadDB"
                   /\ upc' = IF Caught("loadDB") THEN "taskdone" ELSE "dead"
                   /\ UNCHANGED info
  /\ UNCHANGED <<planning, queue, nPut, files, cache, wpts, cur, taskDone,
                 began, ended, fresh, issued, out>>
  /\ UNCHANGED <<calc, dlv>>

\* __mkGoto up to the call of WayPoints(...): glider = __mkGlider(info),
\* the drifter estimate (which raises when the drifter has no fix),
\* index = __getIndex(info), __newPattern = False
MkGoto ==
  /\ upc = "mkgoto"
  /\ \/ /\ failed' = failed \cup {cur}
        /\ raisedAt' = "mkGoto"
        /\ upc' = IF Caught("mkGoto") THEN "taskdone" ELSE "dead"
        /\ UNCHANGED <<planning, cache, fresh>>
     \/ /\ glider' = MkGlider(info)
        /\ startIndex' = GetIndex(wpts, cache, args, info)
        /\ fresh' = cache.newPattern
        /\ cache' = [cache EXCEPT !.newPattern = FALSE]
        /\ patterns' = cache.pattern.val
        /\ pc' = "start"
        /\ index' = None /\ selfIndex' = None
        /\ dt' = Zero /\ self' = <<>>
        /\ drft' = drifter /\ gld' = glider'
        /\ iters' = 0
        /\ fi' = 0 /\ tMin' = NoneR /\ fIndex' = None
        /\ err' = "none"
        /\ result' = NoResult
        /\ upc' = "plan"
        /\ UNCHANGED <<drifter, water, args, db, failed, raisedAt>>
  /\ UNCHANGED <<queue, nPut, files, wpts, info, cur, taskDone, began, ended,
                 issued, out, gliderDB>>
  /\ UNCHANGED <<calc, dlv>>

\* the end of __mkGoto and lines 438-439: self.wpts is assigned when the
\* constructor returned, (goto, maxDist) is what goto returned or
\* (None, None) after an exception, and goes to every delivery thread
MkGotoReturn ==
  /\ upc = "plan"
  /\ pc \in {"raised", "done", "gotoRaised"}
  /\ wpts' = IF pc = "raised" THEN wpts ELSE Some(Plan(self, patterns))
  /\ issued' = IF pc = "done" /\ result.goto.some
               THEN Some(Plan(self, patterns)) ELSE issued
  /\ failed' = IF pc = "done" THEN failed ELSE failed \cup {cur}
  /\ raisedAt' = IF pc = "done" THEN raisedAt ELSE "WayPoints"
  /\ IF pc = "done" \/ Caught("WayPoints")
     THEN /\ out' = IF pc = "done" THEN result ELSE NoResult
          /\ upc' = "taskdone"
     ELSE upc' = "dead" /\ UNCHANGED out
  /\ pc' = "idle"
  /\ UNCHANGED <<drifter, glider, water, patterns, args, startIndex, db,
                 locals, finds, err, result>>
  /\ UNCHANGED <<queue, nPut, files, cache, info, cur, taskDone, began, ended,
                 fresh, gliderDB>>
  /\ UNCHANGED <<calc, dlv>>

\* line 442: q.task_done()
TaskDone ==
  /\ upc = "taskdone"
  /\ taskDone' = taskDone + 1
  /\ ended' = Append(ended, cur)
  /\ upc' = "get"
  /\ UNCHANGED <<planning, queue, nPut, files, cache, wpts, info, cur, began,
                 failed, fresh, issued, out, gliderDB, raisedAt>>
  /\ UNCHANGED <<calc, dlv>>

NextUpdate ==
  \/ Put \/ WriteFile \/ Get \/ LoopGetPattern \/ LoopLoadDB \/ MkGoto
  \/ Start \/ FindStep \/ FindReturn \/ LegStep \/ LoopExit \/ Goto
  \/ MkGotoReturn \/ TaskDone

SpecUpdate == InitUpdate /\ [][NextUpdate]_vars

\* ------------------------------------------- the drifter estimator alone
\* the planner and the worker at rest
AtRest ==
  /\ drifter = Drifter(Origin, PtI(0, 0))
  /\ water = Water(PtI(0, 0))
  /\ glider = Glider(Origin, R(1))
  /\ patterns = <<>>
  /\ args \in ArgSets({FALSE}) /\ args.wptsCount = 0 /\ args.wptsTgtDuration = 0
  /\ startIndex = None
  /\ db = <<>>
  /\ pc = "idle"
  /\ index = None /\ selfIndex = None
  /\ dt = Zero /\ self = <<>>
  /\ drft = drifter /\ gld = glider
  /\ iters = 0
  /\ fi = 0 /\ tMin = NoneR /\ fIndex = None
  /\ err = "none"
  /\ result = NoResult
  /\ NoUpdate

\* fixes at the origin, 1 m north, south or west of it, of accuracy 1 m or
\* 2 m, at seconds 0, 1 or 2; a history is read newest first
FixTimes   == {0, 1, 2}
FixPoints  == {PtI(0, 0), PtI(0, 1), PtI(0, -1), PtI(-1, 0)}
Accuracies == {1, 2}
FixRows    == {Fix(t, p, a) : t \in FixTimes, p \in FixPoints, a \in Accuracies}
FixSets ==
  {f \in UNION {[1..n -> FixRows] : n \in 0..MaxFixes} :
     \A i \in 1..(Len(f) - 1) : f[i].t >= f[i + 1].t}
Ats == {0, 1}

InitEstimate ==
  /\ AtRest
  /\ fixes \in FixSets
  /\ at \in Ats
  /\ est = Ret(NoState)
  /\ deg = Zero /\ enc = NoText /\ dec = Zero
  /\ cpc = "input"
  /\ NoDelivery

\* d = drifter.estimate(t0)
DoEstimate ==
  /\ cpc = "input"
  /\ est' = Estimate(fixes, at)
  /\ cpc' = "output"
  /\ UNCHANGED <<planning, upd, fixes, at, deg, enc, dec, dlv>>

SpecEstimate == InitEstimate /\ [][DoEstimate]_vars

\* --------------------------------------------------- the goto encoding alone
\* decimal degrees of up to MaxNumer halves, quarters and sevenths
Denoms    == {1, 2, 4, 7}
DegInputs == {Rat(k, d) : k \in (0 - MaxNumer)..MaxNumer, d \in Denoms}

InitEncode ==
  /\ AtRest
  /\ fixes = <<>> /\ at = 0 /\ est = Ret(NoState)
  /\ deg \in DegInputs
  /\ enc = NoText /\ dec = Zero
  /\ cpc = "input"
  /\ NoDelivery

\* one coordinate of "(lat, lon) = wpt.wpt.goto()" as the waypoint line
\* formats it
DoEncode ==
  /\ cpc = "input"
  /\ enc' = Format6f(DegMin(deg))
  /\ cpc' = "output"
  /\ UNCHANGED <<planning, upd, fixes, at, est, deg, dec, dlv>>

\* the glider echoes the coordinate as c_wpt_lat or c_wpt_lon and the
\* dialog decodes it (conversion "degMin")
DoDecode ==
  /\ cpc = "output"
  /\ dec' = MkDegrees(DegMin(deg))
  /\ cpc' = "decoded"
  /\ UNCHANGED <<planning, upd, fixes, at, est, deg, enc, dlv>>

NextEncode == DoEncode \/ DoDecode

SpecEncode == InitEncode /\ [][NextEncode]_vars

\* ------------------------------------------------ Update.__getIndex alone
\* the leg loop of WayPoints.__init__ from pattern index i on, for n legs
\* (wptsCount = n, wptsTgtDuration = 0) that can all be solved
RECURSIVE PlanLegs(_, _, _, _, _, _, _)
PlanLegs(d, g, w, ps, i, n, total) ==
  IF n = 0 THEN <<>>
  ELSE LET k   == WrapIndex(i, Len(ps))
           wpt == WayPoint(d, g, w, ps[k + 1]).val
           t   == RAdd(total, wpt.dt)
       IN  <<[wpt |-> wpt, dt |-> t, index |-> k]>>
             \o PlanLegs(wpt.drifter1, wpt.glider1, w, ps, k + 1, n - 1, t)

\* the plans an earlier request can have left in self.wpts: of no, one or
\* two legs, around a drifter at rest, from the first or the second pattern
PrevCounts == {0, 1, 2}
PrevPlans ==
  {Plan(PlanLegs(Drifter(Origin, PtI(0, 0)), Glider(Origin, R(1)),
                 Water(PtI(0, 0)), c, i, n, Zero), c) :
     c \in {CatalogA, CatalogB}, i \in {0, 1}, n \in PrevCounts}
\* --gotoIndex: not given, zero, negative, and distances in metres
GotoIndexes == {NoneR, Some(R(0)), Some(R(-1)), Some(R(1)), Some(R(2)),
                Some(R(4)), Some(R(6))}
\* the waypoint the glider reported last: none, or a point on or between
\* the pattern points
CWpts == {PtI(0, 3), PtI(0, 2), PtI(0, 0), PtI(0, -2), PtI(4, 0)}
IndexInfos == {NoInfo} \cup {[c_wpt |-> Some(p), m_avg_speed |-> NoneR] : p \in CWpts}

InitIndex ==
  /\ drifter = Drifter(Origin, PtI(0, 0))
  /\ water = Water(PtI(0, 0))
  /\ glider = Glider(Origin, R(1))
  /\ patterns = <<>>
  /\ \E a \in UpdateArgs, g \in GotoIndexes : args = [a EXCEPT !.gotoIndex = g]
  /\ startIndex = None
  /\ db = <<>>
  /\ pc = "idle"
  /\ index = None /\ selfIndex = None
  /\ dt = Zero /\ self = <<>>
  /\ drft = drifter /\ gld = glider
  /\ iters = 0
  /\ fi = 0 /\ tMin = NoneR /\ fIndex = None
  /\ err = "none"
  /\ result = NoResult
  /\ queue = <<>> /\ nPut = 0
  /\ files = <<Definition("ok", CatalogA)>>
  /\ \E n \in BOOLEAN :
       cache = [pattern |-> Some(CatalogA), patternTime |-> Some(1),
                patternEnabled |-> TRUE, newPattern |-> n]
  /\ wpts \in {NoPlan} \cup {Some(p) : p \in PrevPlans}
  /\ info \in IndexInfos
  /\ upc = "mkgoto" /\ cur = 0 /\ taskDone = 0
  /\ began = <<>> /\ ended = <<>> /\ failed = {}
  /\ fresh = FALSE /\ issued = NoPlan /\ out = NoResult
  /\ gliderDB = NoGliderDB /\ raisedAt = "none"
  /\ fixes = <<>> /\ at = 0 /\ est = Ret(NoState)
  /\ deg = Zero /\ enc = NoText /\ dec = Zero
  /\ cpc = "input"
  /\ NoDelivery

\* index = self.__getIndex(info)
DoGetIndex ==
  /\ cpc = "input"
  /\ startIndex' = GetIndex(wpts, cache, args, info)
  /\ cpc' = "output"
  /\ UNCHANGED <<drifter, glider, water, patterns, args, db, pc, locals,
                 finds, err, result>>
  /\ UNCHANGED <<upd, fixes, at, est, deg, enc, dec, dlv>>

SpecIndex == InitIndex /\ [][DoGetIndex]_vars

\* ------------------------------------- the worker after a first request
\* the worker waiting in q.get() after it handled one request with the
\* pattern file defining CatalogA, --wptsCount 2 and no history database:
\* the catalog is loaded, self.wpts is the plan of two legs built for that
\* request, and the locals are as that call left them.  Requests put and
\* task_done calls are counted from here on.
FirstLegs ==
  PlanLegs(Drifter(Origin, PtI(0, 0)), Glider(Origin, R(1)), Water(PtI(0, 0)),
           CatalogA, 0, 2, Zero)
InitReload ==
  /\ drifter = Drifter(Origin, PtI(0, 0))
  /\ water = Water(PtI(0, 0))
  /\ glider = Glider(Origin, R(1))
  /\ patterns = CatalogA
  /\ args = [wptsCount |-> 2, wptsTgtDuration |-> 0, wptsMinDuration |-> 4,
             wptsMatchRadius |-> 1, wptsDB |-> FALSE, gotoIndex |-> Some(R(1))]
  /\ startIndex = None
  /\ db = <<Row(0, PtI(0, 3), 0, R(3))>>
  /\ pc = "idle"
  /\ index = Some(2) /\ selfIndex = Some(0)
  /\ dt = R(9) /\ self = FirstLegs
  /\ drft = drifter /\ gld = Glider(PtI(0, -3), R(1))
  /\ iters = 2
  /\ fi = 2 /\ tMin = Some(R(3)) /\ fIndex = Some(0)
  /\ err = "AttributeError"
  /\ result = NoResult
  /\ queue = <<>> /\ nPut = 0
  /\ files = <<Definition("ok", CatalogA)>>
  /\ cache = [pattern |-> Some(CatalogA), patternTime |-> Some(1),
              patternEnabled |-> TRUE, newPattern |-> FALSE]
  /\ wpts = Some(Plan(FirstLegs, CatalogA))
  /\ info = [c_wpt |-> Some(PtI(0, -3)), m_avg_speed |-> Some(R(1))]
  /\ upc = "get" /\ cur = 0 /\ taskDone = 0
  /\ began = <<>> /\ ended = <<>> /\ failed = {}
  /\ fresh = TRUE /\ issued = NoPlan /\ out = NoResult
  /\ gliderDB = [request |-> 0, speeds |-> <<SpeedRow(0, R(1))>>]
  /\ raisedAt = "WayPoints"
  /\ NoCalc
  /\ NoDelivery

SpecReload == InitReload /\ [][NextUpdate]_vars

\* ------------------------------------- Update.py, delivery and waitToFinish
\* what __mkGoto returns to runAndCatch: the text of a plan (here of a plan
\* without legs) and no distance, or (None, None) after an exception
PlanText == GotoText(<<>>, Glider(Origin, DefaultSpeed)).val
MkGotoResult(text) ==
  IF text THEN GotoResult(NoneR, Some(PlanText)) ELSE NoResult

\* the tuple (glider, goto, maxDist) of thr.put, with the request it is of
Item(id, r) == [id |-> id, goto |-> r.goto, maxDist |-> r.maxDist]

\* "for thr in threads: thr.put(args.glider, goto, maxDist)"
Hand(b, item) == [k \in 1..Len(Threads) |-> Append(b[k], item)]

\* Deliver with the API thread deploying whatever it is given
Deliver_Always(thr, item, io) ==
  IF thr = "MailTo"
  THEN [raised |-> FALSE,
        effect |-> IF item.goto.some THEN "goto"
                   ELSE IF item.maxDist.some THEN "noNeed" ELSE "noSolution"]
  ELSE IF ~io THEN [raised |-> TRUE, effect |-> "none"]
       ELSE [raised |-> FALSE,
             effect |-> IF thr = "API" THEN "deployed"
                        ELSE IF thr = "Archiver" THEN "archived" ELSE "written"]
\* one turn of the loop of a delivery thread after q.get(): MailTo mails the
\* plan or a report of why there is none, and __mailTo catches every
\* exception; API, Archiver and Filer skip an item without a text and
\* otherwise deploy, archive or write it, and an exception of the temporary
\* file, of the subprocess or of open() (io is FALSE) leaves runAndCatch
Deliver(thr, item, io) ==
  IF thr = "MailTo"
  THEN [raised |-> FALSE,
        effect |-> IF item.goto.some THEN "goto"
                   ELSE IF item.maxDist.some THEN "noNeed" ELSE "noSolution"]
  ELSE IF ~item.goto.some THEN [raised |-> FALSE, effect |-> "none"]
  ELSE IF ~io THEN [raised |-> TRUE, effect |-> "none"]
       ELSE [raised |-> FALSE,
             effect |-> IF thr = "API" THEN "deployed"
                        ELSE IF thr = "Archiver" THEN "archived" ELSE "written"]

\* the worker has started its delivery threads and waits in q.get(); the
\* pattern file defines CatalogA
InitDeliver ==
  /\ drifter = Drifter(Origin, PtI(0, 0))
  /\ water = Water(PtI(0, 0))
  /\ glider = Glider(Origin, R(1))
  /\ patterns = <<>>
  /\ args = [wptsCount |-> 0, wptsTgtDuration |-> 0, wptsMinDuration |-> 4,
             wptsMatchRadius |-> 1, wptsDB |-> FALSE, gotoIndex |-> Some(R(1))]
  /\ startIndex = None
  /\ db = <<>>
  /\ pc = "idle"
  /\ index = None /\ selfIndex = None
  /\ dt = Zero /\ self = <<>>
  /\ drft = drifter /\ gld = glider
  /\ iters = 0
  /\ fi = 0 /\ tMin = NoneR /\ fIndex = None
  /\ err = "none"
  /\ result = NoResult
  /\ queue = <<>> /\ nPut = 0
  /\ files = <<Definition("ok", CatalogA)>>
  /\ cache = NoCache /\ wpts = NoPlan /\ info = NoInfo
  /\ upc = "get" /\ cur = 0 /\ taskDone = 0
  /\ began = <<>> /\ ended = <<>> /\ failed = {}
  /\ fresh = FALSE /\ issued = NoPlan /\ out = NoResult
  /\ gliderDB = NoGliderDB /\ raisedAt = "none"
  /\ NoCalc
  /\ NoDelivery

\* Update.put by the dialog, which puts nothing once waitToFinish is called
Produce == wait.at = "off" /\ Put

\* lines 427-441 for the request taken: __getPattern, __loadDB and __mkGoto
\* (followed step by step in SpecUpdate) end with a result handed to every
\* delivery thread, or with nothing handed (an exception of __getPattern,
\* __loadDB or the estimate, or a glider that is not enabled)
HandOver ==
  /\ upc = "pattern"
  /\ \/ \E text \in BOOLEAN :
          LET r == MkGotoResult(text)
          IN  /\ out' = r
              /\ sent' = Append(sent, Item(cur, r))
              /\ box' = Hand(box, Item(cur, r))
              /\ UNCHANGED failed
     \/ /\ failed' = failed \cup {cur}
        /\ UNCHANGED <<out, sent, box>>
  /\ upc' = "taskdone"
  /\ UNCHANGED <<planning, queue, nPut, files, cache, wpts, info, cur, taskDone,
                 began, ended, fresh, issued, gliderDB, raisedAt>>
  /\ UNCHANGED <<calc, done, alive, effects, wait>>

\* delivery thread k: q.get(), the delivery, q.task_done() unless an
\* exception ended the thread
ThreadStep(k) ==
  /\ alive[k]
  /\ box[k] # <<>>
  /\ \E io \in BOOLEAN :
       LET item == Head(box[k])
           d    == Deliver(Threads[k], item, io)
       IN  /\ box' = [box EXCEPT ![k] = Tail(box[k])]
           /\ effects' = [effects EXCEPT
                 ![k] = Append(effects[k], [id |-> item.id, effect |-> d.effect,
                                            text |-> item.goto.some])]
           /\ alive' = [alive EXCEPT ![k] = ~d.raised]
           /\ done' = [done EXCEPT ![k] = IF d.raised THEN done[k] ELSE done[k] + 1]
  /\ UNCHANGED <<planning, upd, calc, sent, wait>>

\* Update.waitToFinish is called
WaitToFinish ==
  /\ wait.at = "off"
  /\ wait' = [at |-> "queue", thr |-> 0]
  /\ UNCHANGED <<planning, upd, calc, box, done, alive, effects, sent>>

\* self.__queue.join() returns: every request put was marked done
JoinQueue ==
  /\ wait.at = "queue"
  /\ taskDone = nPut
  /\ wait' = [at |-> "thread", thr |-> 1]
  /\ UNCHANGED <<planning, upd, calc, box, done, alive, effects, sent>>

\* thr.waitToFinish() returns for the thread waited for: every item put to
\* it was marked done
JoinThread ==
  /\ wait.at = "thread"
  /\ done[wait.thr] = Len(effects[wait.thr]) + Len(box[wait.thr])
  /\ wait' = IF wait.thr < Len(Threads)
             THEN [at |-> "thread", thr |-> wait.thr + 1]
             ELSE [at |-> "returned", thr |-> 0]
  /\ UNCHANGED <<planning, upd, calc, box, done, alive, effects, sent>>

NextDeliver ==
  \/ Produce \/ Get \/ HandOver \/ TaskDone
  \/ \E k \in 1..Len(Threads) : ThreadStep(k)
  \/ WaitToFinish \/ JoinQueue \/ JoinThread

\* every thread that can take a step takes one, and a join that can return
\* returns
FairDeliver ==
  /\ WF_vars(Get) /\ WF_vars(HandOver) /\ WF_vars(TaskDone)
  /\ \A k \in 1..Len(Threads) : WF_vars(ThreadStep(k))
  /\ WF_vars(JoinQueue) /\ WF_vars(JoinThread)

SpecDeliver == InitDeliver /\ [][NextDeliver]_vars /\ FairDeliver

\* ------------------------------------------------------------------ claims
Returned   == pc \in {"built", "done", "gotoRaised"}   \* __init__ returned a plan
SolverErrors == {"NoSolution", "NoRealSolution", "NoFutureSolution"}
\* pattern i (from 1) is solvable from the initial state
Solvable(i) == Dt(drifter, glider, water, patterns[i]).ok
Max(m, n) == IF m < n THEN n ELSE m
Min(m, n) == IF m < n THEN m ELSE n

C2_AsClaimed == Returned => Len(self) >= 2

\* C2, amended: every plan returned has at least min(2, maxLegs) legs, so at
\* least two whenever maxLegs >= 2, even when the first leg's dt alone
\* exceeds wptsTgtDuration
C2_TwoLegs == Returned => Len(self) >= Min(2, args.wptsCount)

\* a plan whose first leg alone exceeds the target duration, with two legs
C2_Witness ==
  /\ pc = "built" /\ Len(self) = 2 /\ args.wptsCount > 2
  /\ RLt(R(args.wptsTgtDuration), self[1].dt)

\* C3, as claimed: the cumulative time of leg i+1 is strictly greater than
\* that of leg i
C3_AsClaimed ==
  \A i \in 1..(Len(self) - 1) : RLt(self[i].dt, self[i + 1].dt)

\* C3, amended: the cumulative time of leg i+1 is that of leg i plus the
\* leg's own dt >= 0: it never decreases, is strictly greater when the leg's
\* dt > 0 and equal when the leg's dt = 0
C3_Monotone ==
  \A i \in 1..(Len(self) - 1) :
    /\ self[i + 1].dt = RAdd(self[i].dt, self[i + 1].wpt.dt)
    /\ RLe(Zero, self[i + 1].wpt.dt)
    /\ RLe(self[i].dt, self[i + 1].dt)
    /\ RLt(Zero, self[i + 1].wpt.dt) => RLt(self[i].dt, self[i + 1].dt)

\* a plan with a leg of dt > 0 followed by a leg of dt = 0
C3_Witness ==
  /\ Len(self) >= 2
  /\ RLt(Zero, self[1].wpt.dt) /\ self[2].wpt.dt = Zero
  /\ self[2].dt = self[1].dt

\* a solve is about to be made from the chained state (drft, gld): the first
\* leg or the closest-in-time search from the initial state, or a later leg
Solving == pc \in {"start", "loop"}
\* the solve of pattern i (from 1) from the chained state
CurA       == CoefA(drft, gld, water)
CurB(i)    == CoefB(drft, gld, water, patterns[i])
CurC(i)    == CoefC(drft, gld, patterns[i])
CurDt(i)   == Dt(drft, gld, water, patterns[i])

\* C4: with a # 0 and disc >= 0 the solver returns the smallest non-negative
\* root, fails with NoFutureSolution exactly when both roots are negative,
\* and every dt it returns is >= 0
C4_SmallestRoot ==
  Solving => \A i \in 1..Len(patterns) :
    LET a == CurA
        b == CurB(i)
        c == CurC(i)
        r == CurDt(i)
    IN  /\ (a # Zero /\ RLe(Zero, Disc(a, b, c))) =>
             LET roots == {RootP(a, b, c), RootM(a, b, c)}
             IN  /\ r.ok <=> \E t \in roots : RLe(Zero, t)
                 /\ ~r.ok <=> r.err = "NoFutureSolution"
                 /\ r.ok => /\ r.val \in roots
                            /\ \A t \in roots : RLe(Zero, t) => RLe(r.val, t)
        /\ r.ok => RLe(Zero, r.val)

\* a first leg solved with two distinct positive roots, the smaller returned
C4_Witness ==
  /\ Len(self) = 1
  /\ LET i  == self[1].index + 1
         a  == CoefA(drifter, glider, water)
         b  == CoefB(drifter, glider, water, patterns[i])
         c  == CoefC(drifter, glider, patterns[i])
     IN  /\ RLt(Zero, a)
         /\ RLt(Zero, RootP(a, b, c)) /\ RLt(Zero, RootM(a, b, c))
         /\ RootP(a, b, c) # RootM(a, b, c)
         /\ self[1].wpt.dt = RMin(RootP(a, b, c), RootM(a, b, c))

\* C5: when a = 0 the solve of every pattern raises NoSolution whatever b and
\* c are, and the plan gets no leg
C5_Degenerate ==
  CurA = Zero =>
    /\ Solving => \A i \in 1..Len(patterns) : CurDt(i) = Raise("NoSolution")
    /\ self = <<>>
    /\ (pc = "raised" /\ Len(patterns) > 0) => err = "NoSolution"

\* the constructor raised NoSolution on a pattern with b # 0 and c # 0
C5_Witness ==
  /\ pc = "raised" /\ err = "NoSolution" /\ CurA = Zero
  /\ \E i \in 1..Len(patterns) : CurB(i) # Zero /\ CurC(i) # Zero

\* C6: with a # 0 the solver raises NoRealSolution if and only if disc < 0;
\* disc = 0 gives the double root -b/(2a), returned when it is >= 0 and
\* rejected with NoFutureSolution when it is negative
C6_Discriminant ==
  Solving => \A i \in 1..Len(patterns) :
    LET a    == CurA
        b    == CurB(i)
        disc == Disc(a, b, CurC(i))
        r    == CurDt(i)
    IN  a # Zero =>
          /\ (~r.ok /\ r.err = "NoRealSolution") <=> RLt(disc, Zero)
          /\ disc = Zero =>
               LET root == RDiv(RNeg(b), RMul(R(2), a))
               IN  IF RLe(Zero, root) THEN r = Ret(root)
                   ELSE r = Raise("NoFutureSolution")

\* a first leg solved at a zero discriminant with a positive double root
C6_Witness ==
  /\ Len(self) = 1
  /\ LET i  == self[1].index + 1
         a  == CoefA(drifter, glider, water)
         b  == CoefB(drifter, glider, water, patterns[i])
         c  == CoefC(drifter, glider, patterns[i])
     IN  /\ a # Zero /\ Disc(a, b, c) = Zero
         /\ RLt(Zero, self[1].wpt.dt)
         /\ self[1].wpt.dt = RDiv(RNeg(b), RMul(R(2), a))

\* C7, as claimed: without a startIndex, the closest-in-time search raises a
\* solver error only if every pattern fails from the initial state
C7_AsClaimed ==
  (~startIndex.some /\ pc = "raised" /\ iters = 0 /\ err \in SolverErrors) =>
    \A i \in 1..Len(patterns) : ~Solvable(i)

\* C8: without a startIndex, the start index chosen is the first index of
\* smallest single-leg dt from the initial state
C8_ClosestFirst ==
  (~startIndex.some /\ selfIndex.some) =>
    LET k   == selfIndex.val + 1
        dts == [i \in 1..Len(patterns) |-> Dt(drifter, glider, water, patterns[i])]
    IN  /\ k \in 1..Len(patterns)
        /\ \A i \in 1..Len(patterns) :
             /\ dts[i].ok
             /\ RLe(dts[k].val, dts[i].val)
             /\ i < k => RLt(dts[k].val, dts[i].val)

\* two patterns of equal dt, the first chosen
C8_Witness ==
  /\ ~startIndex.some /\ selfIndex = Some(0) /\ Len(patterns) = 2
  /\ patterns[1] # patterns[2]
  /\ Dt(drifter, glider, water, patterns[1]) = Dt(drifter, glider, water, patterns[2])

\* C9, as claimed: with an empty catalog the constructor returns no plan
C9_AsClaimed == Len(patterns) = 0 => ~Returned

\* the rows of the latest generation are the legs of the plan: the same
\* pattern indices in the same order at the same intercept points
Identical(rows, slf) ==
  /\ Len(rows) = Len(slf)
  /\ \A i \in 1..Len(slf) :
       rows[i].iPattern = slf[i].index /\ rows[i].latLon = slf[i].wpt.wpt

RECURSIVE SumDt(_)
SumDt(rows) == IF rows = <<>> THEN Zero ELSE RAdd(rows[1].dt, SumDt(Tail(rows)))

\* C10, as claimed: when the latest generation of the history is identical
\* to the new plan and its total time is >= wptsMinDuration, goto suppresses
\* the plan with a maximum deviation of 0
C10_AsClaimed ==
  (/\ pc \in {"done", "gotoRaised"}
   /\ args.wptsDB /\ Len(self) >= 1
   /\ Identical(db, self)
   /\ RLe(R(args.wptsMinDuration), SumDt(db))) =>
    /\ pc = "done"
    /\ ~result.goto.some
    /\ result.maxDist = Some(Zero)

\* the planar distance of p and q is greater than r metres
Farther(p, q, r) == RLt(R(r * r), Norm2(VSub(p, q)))

\* rows is the plan slf with exactly one intercept point moved farther than
\* r metres
PerturbedOne(rows, slf, r) ==
  /\ Len(rows) = Len(slf)
  /\ \A i \in 1..Len(slf) : rows[i].iPattern = slf[i].index
  /\ \E k \in 1..Len(slf) :
       /\ Farther(rows[k].latLon, slf[k].wpt.wpt, r)
       /\ \A i \in 1..Len(slf) : i # k => rows[i].latLon = slf[i].wpt.wpt

\* the stability check is about to be made on a plan with legs
Checking == pc = "built" /\ args.wptsDB /\ Len(self) >= 1

\* C11, as claimed: when the latest generation is the new plan with one
\* intercept point moved farther than wptsMatchRadius, the stability check
\* returns None
C11_AsClaimed ==
  (Checking /\ PerturbedOne(db, self, args.wptsMatchRadius)) =>
    CloseEnough(self, db, args) = Ret(NoneR)

\* the rows from offset j on agree with the plan: the same pattern indices
\* position by position, every intercept point within r metres
Compared(rows, slf, j) == Min(Len(rows) - j + 1, Len(slf))
Survives(rows, slf, j, r) ==
  /\ rows[j].iPattern = slf[1].index
  /\ \A i \in 1..Compared(rows, slf, j) :
       /\ rows[j + i - 1].iPattern = slf[i].index
       /\ ~Farther(rows[j + i - 1].latLon, slf[i].wpt.wpt, r)
TotalTime(rows, slf, j) == SumDt(SubSeq(rows, j, j + Compared(rows, slf, j) - 1))

\* C12, as claimed: the stability check returns Some(maxDist) only for a
\* surviving alignment of totalTime >= wptsMinDuration, and returns None when
\* the surviving alignments have totalTime < wptsMinDuration
C12_AsClaimed ==
  Checking =>
    LET r    == CloseEnough(self, db, args)
        live == {j \in 1..Len(db) : Survives(db, self, j, args.wptsMatchRadius)}
        long == {j \in live : RLe(R(args.wptsMinDuration), TotalTime(db, self, j))}
    IN  /\ r.ok
        /\ r.val.some => long # {}
        /\ (live # {} /\ long = {}) => ~r.val.some

\* C13, as claimed: with no history database, or no row in it, goto on a
\* plan with legs returns the plan text and no maximum deviation
C13_AsClaimed ==
  (/\ pc \in {"done", "gotoRaised"} /\ Len(self) >= 1
   /\ ~args.wptsDB \/ db = <<>>) =>
    /\ pc = "done"
    /\ result.goto.some /\ ~result.maxDist.some

Legs(slf) ==
  [i \in 1..Len(slf) |-> Row(i - 1, slf[i].wpt.wpt, slf[i].index, slf[i].dt)]

\* C15, as claimed: after a planning call with a history database that did
\* not suppress its plan, the latest generation is exactly the legs of that
\* plan
C15_AsClaimed ==
  (/\ pc \in {"done", "gotoRaised"}
   /\ args.wptsDB /\ Len(self) >= 1
   /\ ~(pc = "done" /\ result.maxDist.some)) =>
    db = Legs(self)

\* C16, as claimed: in the first planning call after the catalog was
\* reloaded from a rewritten file, with a record in the history whose pattern
\* index is that of the new plan's first leg, no continuation index is taken from the previous
\* plan and the new plan is not held back: its text goes out
C16_AsClaimed ==
  (/\ upc = "taskdone" /\ fresh
   /\ Len(ended) >= 1 /\ cache.patternTime.val > 1
   /\ args.wptsDB /\ Len(self) >= 1
   /\ \E j \in 1..Len(db) : db[j].iPattern = self[1].index) =>
    /\ startIndex = None
    /\ out.goto.some /\ ~out.maxDist.some

\* C17, as claimed: when a planning call takes its start index from the
\* previous plan, that plan is the last one issued
C17_AsClaimed ==
  (upc = "plan" /\ startIndex.some) => wpts = issued

\* C18, as claimed: the cached catalog is the one of the definition whose
\* modification time is the cached one
C18_AsClaimed ==
  cache.pattern.some =>
    /\ cache.patternTime.some
    /\ files[cache.patternTime.val].kind \in {"ok", "noFlag", "disabled"}
    /\ cache.pattern.val = files[cache.patternTime.val].patterns

\* C19: the requests are taken in the order they were put and marked done in
\* that order, at most one is taken and not yet marked done, and a planning
\* call runs only for that one, whatever the producers do meanwhile
C19_OneAtATime ==
  /\ began = [i \in 1..Len(began) |-> i]
  /\ ended = SubSeq(began, 1, Len(ended))
  /\ Len(began) - Len(ended) \in {0, 1}
  /\ upc = "get" <=> Len(began) = Len(ended)
  /\ pc # "idle" =>
       /\ upc = "plan"
       /\ cur = began[Len(began)]
       /\ Len(ended) = Len(began) - 1

\* the plan of request 1 is being computed while request 2 waits in the queue
C19_Witness ==
  upc = "plan" /\ pc = "loop" /\ cur = 1 /\ queue = <<2>>

Encoded(x) ==
  LET a     == RAbs(x)
      whole == R(a[1] \div a[2])
      sign  == IF RLt(x, Zero) THEN R(-1) ELSE R(1)
  IN  RMul(sign, RAdd(RMul(whole, R(100)), RMul(RSub(a, whole), R(60))))
\* a text with the opposite sign
Negated(text) == [text EXCEPT !.neg = ~@]

\* C21, as claimed: 44.5 is written as 4430.0000 and -124.25 as -12415.0000,
\* the encoding rendered with four decimal places, and the text of -x is the
\* text of x with the opposite sign
C21_AsClaimed ==
  cpc = "output" =>
    /\ deg = Rat(89, 2) =>
         enc = [neg |-> FALSE, whole |-> 4430, frac |-> 0, places |-> 4]
    /\ deg = Rat(-497, 4) =>
         enc = [neg |-> TRUE, whole |-> 12415, frac |-> 0, places |-> 4]
    /\ deg # Zero => Format6f(DegMin(RNeg(deg))) = Negated(enc)

SameTime == \A i \in 1..Len(fixes) : fixes[i].t = fixes[1].t

\* C23, as claimed: with fewer than two fixes, or with every fix at one
\* timestamp, the estimator returns no drifter state
C23_AsClaimed ==
  (cpc = "output" /\ (Len(fixes) < 2 \/ SameTime)) => ~(est.ok /\ est.val.some)

\* the sign of a rational
Sign(x) == IF RLt(x, Zero) THEN -1 ELSE IF x = Zero THEN 0 ELSE 1

\* C24, as claimed: vy has the sign of the slope fitted through the
\* latitudes and vx that of the slope fitted through the longitudes
C24_AsClaimed ==
  (cpc = "output" /\ est.ok /\ est.val.some) =>
    /\ Sign(est.val.val.vy) = Sign(LatFit(fixes).coef)
    /\ Sign(est.val.val.vx) = Sign(LonFit(fixes).coef)

\* C25, as claimed: when table glider holds no m_avg_speed row for the
\* request, __loadDB does not raise and the plan is computed for a glider of
\* 0.3 m/s
C25_AsClaimed ==
  (cur # 0 /\ gliderDB.request = cur /\ gliderDB.speeds = <<>>) =>
    /\ raisedAt # "loadDB"
    /\ upc = "plan" => glider.speed = DefaultSpeed

\* C26: with the drifter at rest and no current, the dt of every pattern
\* satisfies dt >= 0 and dt * speed = |offset - glider0|, and it is the same
\* with the rotate flag of the pattern inverted
C26_StraightLine ==
  (Solving /\ drft.v = PtI(0, 0) /\ water.v = PtI(0, 0)) =>
    \A i \in 1..Len(patterns) :
      LET r     == CurDt(i)
          d0    == VSub(patterns[i].offset, Glider0(drft, gld))
          other == [patterns[i] EXCEPT !.qRotate = ~@]
      IN  /\ r.ok
          /\ RLe(Zero, r.val)
          /\ RMul(RMul(r.val, r.val), RMul(gld.speed, gld.speed)) = Dot(d0, d0)
          /\ Dt(drft, gld, water, other) = r

\* a leg of positive dt to a pattern with the rotate flag set, the drifter at
\* rest in still water
C26_Witness ==
  /\ pc = "loop" /\ Len(self) >= 1
  /\ drifter.v = PtI(0, 0) /\ water.v = PtI(0, 0)
  /\ patterns[self[1].index + 1].qRotate
  /\ RLt(Zero, self[1].wpt.dt)

\* the stop condition of the sequencer for a plan of n legs of elapsed time t
Stop(n, t) ==
  \/ RLt(R(args.wptsTgtDuration), t) /\ n >= 2
  \/ n = args.wptsCount
\* the elapsed time after the first n legs
Elapsed(n) == IF n = 0 THEN Zero ELSE self[n].dt

C30_Chained ==
  \A k \in 1..Len(self) :
    LET d == IF k = 1 THEN drifter ELSE self[k - 1].wpt.drifter1
        g == IF k = 1 THEN glider ELSE self[k - 1].wpt.glider1
        w == self[k].wpt
        r == WayPoint(d, g, water, patterns[self[k].index + 1])
    IN  /\ r.ok /\ r.val = w
        /\ w.glider1.latLon = w.wpt
        /\ w.glider1.speed = glider.speed
        /\ w.drifter1.v = drifter.v
        /\ w.drifter1.latLon = Translate(d.latLon, VMul(drifter.v, w.dt))

\* a second leg of positive dt behind a moving drifter
C30_Witness ==
  /\ pc = "built" /\ Len(self) >= 2
  /\ drifter.v # PtI(0, 0)
  /\ RLt(Zero, self[2].wpt.dt)
  /\ self[1].wpt.glider1.latLon # glider.latLon

\* C31: in the plane anchored at where the drifter starts a leg, the intercept
\* is target0 + V dt and the drifter ends at V dt, so that the waypoint lies
\* at the (rotated) pattern offset target0 from where the drifter then is
C31_Intercept ==
  \A k \in 1..Len(self) :
    LET d       == IF k = 1 THEN drifter ELSE self[k - 1].wpt.drifter1
        w       == self[k].wpt
        target0 == Target0(d, patterns[self[k].index + 1])
        delta   == VMul(d.v, w.dt)
    IN  /\ w.wptXY = VAdd(target0, delta)
        /\ Delta(d.latLon, w.wpt) = w.wptXY
        /\ Delta(d.latLon, w.drifter1.latLon) = delta
        /\ Delta(w.drifter1.latLon, w.wpt) = target0
        /\ VSub(w.wptXY, delta) = target0

\* a leg of positive dt behind a moving drifter, with an offset that is
\* rotated to the drifter's heading
C31_Witness ==
  /\ pc = "built" /\ Len(self) >= 1
  /\ drifter.v # PtI(0, 0)
  /\ RLt(Zero, self[1].wpt.dt)
  /\ patterns[self[1].index + 1].qRotate
  /\ Target0(drifter, patterns[self[1].index + 1]) # patterns[self[1].index + 1].offset

\* the sum of the legs' own durations
RECURSIVE OwnTime(_)
OwnTime(slf) == IF slf = <<>> THEN Zero ELSE RAdd(slf[1].wpt.dt, OwnTime(Tail(slf)))

\* C32, as claimed: the records a plan that is not suppressed writes carry
\* each leg's own dt, so that the totalTime the next stability check adds up
\* over these records is the sum of the per-leg durations of the legs matched
C32_AsClaimed ==
  (/\ pc \in {"done", "gotoRaised"}
   /\ args.wptsDB /\ Len(self) >= 2
   /\ ~(pc = "done" /\ result.maxDist.some)) =>
    /\ Len(db) = Len(self)
    /\ \A i \in 1..Len(db) : db[i].dt = self[i].wpt.dt
    /\ TotalTime(db, self, 1) = OwnTime(self)

\* the squared distance of leg i of the plan kept from the waypoint reported
Away2(i) == Norm2(VSub(wpts.val.legs[i].wpt.wpt, info.c_wpt.val))
\* the legs of the plan kept that are strictly closer to the waypoint
\* reported than gotoIndex metres
Within ==
  {i \in 1..Len(wpts.val.legs) :
     RLt(Away2(i), RMul(args.gotoIndex.val, args.gotoIndex.val))}
\* no start index can be taken from the plan kept
Absent ==
  \/ ~wpts.some \/ cache.newPattern
  \/ ~args.gotoIndex.some \/ RLe(args.gotoIndex.val, Zero)
  \/ ~info.c_wpt.some
  \/ Within = {}

\* C33: __getIndex returns the pattern index of a leg of the plan kept that
\* is nearest to the waypoint the glider reported, among the legs strictly
\* closer than gotoIndex metres; it returns None when there is no plan, the
\* catalog was just reloaded, gotoIndex is not given or <= 0, no waypoint
\* was reported, or no leg is within gotoIndex
C33_StartIndex ==
  cpc = "output" =>
    IF Absent THEN startIndex = None
    ELSE /\ startIndex.some
         /\ \E i \in Within :
              /\ \A j \in Within : RLe(Away2(i), Away2(j))
              /\ startIndex.val = wpts.val.legs[i].index

\* two legs within gotoIndex, the second one nearer, and its index returned
C33_Witness ==
  /\ cpc = "output" /\ ~Absent
  /\ Within = {1, 2}
  /\ RLt(Away2(2), Away2(1))
  /\ startIndex = Some(wpts.val.legs[2].index)
  /\ wpts.val.legs[2].index # wpts.val.legs[1].index

\* C34, as claimed: a start index taken from the plan kept is taken from a
\* plan computed with the catalog now loaded, also after a construction that
\* failed
C34_AsClaimed ==
  (upc = "plan" /\ startIndex.some) =>
    /\ wpts.some
    /\ wpts.val.patterns = patterns
    /\ wpts.val.patterns = cache.pattern.val

Ids(s) == [i \in 1..Len(s) |-> s[i].id]

\* C36: every result handed over is in the queue of each of the four
\* delivery threads or was taken by it, exactly once and in the order the
\* results were computed; for a result without a plan text the API thread
\* deploys nothing, the archiver and the file writer write nothing, and the
\* mail thread reports it
C36_HandedOnce ==
  /\ \A i, j \in 1..Len(sent) : i < j => sent[i].id < sent[j].id
  /\ \A k \in 1..Len(Threads) :
       /\ Ids(effects[k]) \o Ids(box[k]) = Ids(sent)
       /\ \A i \in 1..Len(effects[k]) :
            ~sent[i].goto.some =>
              IF Threads[k] = "MailTo"
              THEN effects[k][i].effect \in {"noNeed", "noSolution"}
              ELSE effects[k][i].effect = "none"

\* a result without a text and a later one with a text went through all four
\* threads: the first was only reported by mail, the second was deployed,
\* mailed, archived and written
C36_Witness ==
  /\ Len(sent) = 2
  /\ ~sent[1].goto.some /\ sent[2].goto.some
  /\ \A k \in 1..Len(Threads) : Len(effects[k]) = 2
  /\ effects[1][1].effect = "none" /\ effects[1][2].effect = "deployed"
  /\ effects[2][1].effect = "noSolution" /\ effects[2][2].effect = "goto"
  /\ effects[3][1].effect = "none" /\ effects[3][2].effect = "archived"
  /\ effects[4][1].effect = "none" /\ effects[4][2].effect = "written"

\* the step is one of the worker, from where it is in runAndCatch
WorkerStep(from) == upc = from /\ upc' # upc
\* what a request that plans changes: the plan kept, the history, what was
\* handed to the delivery threads, and the planning call
PlanningFrame ==
  UNCHANGED <<wpts, db, out, issued, sent, box, pc, self, result, failed>>

\* C37: with enabled: false in the pattern file, __getPattern is followed by
\* task_done alone: no telemetry is loaded and no plan computed, nothing is
\* handed to a delivery thread, self.wpts and table waypoints stay as they
\* are, and the request is marked done; an entry without the key enabled
\* goes on to __loadDB as an enabled one does
C37_Disabled ==
  [][
     /\ (WorkerStep("pattern") /\ files[Len(files)].kind = "disabled") =>
          (/\ ~cache'.patternEnabled
           /\ upc' = "taskdone"
           /\ PlanningFrame)
     /\ (WorkerStep("taskdone") /\ ~cache.patternEnabled) =>
          (/\ pc = "idle" /\ gliderDB.request # cur
           /\ taskDone' = taskDone + 1
           /\ ended' = Append(ended, cur)
           /\ PlanningFrame)
     /\ (WorkerStep("pattern") /\ files[Len(files)].kind = "noFlag") =>
          (/\ cache'.patternEnabled
           /\ upc' = "load")
  ]_vars

\* a second request was taken with the file rewritten to enabled: false,
\* after a first one left a plan in self.wpts: the worker is at task_done
C37_Witness ==
  /\ upc = "taskdone" /\ cur = 2
  /\ ~cache.patternEnabled
  /\ files[Len(files)].kind = "disabled" /\ cache.patternTime = Some(Len(files))
  /\ wpts.some /\ Len(wpts.val.legs) = 2
  /\ gliderDB.request = 1

\* the alignments of the rows with the plan that survive and last long enough
Accepted(rows, slf, a) ==
  {j \in 1..Len(rows) :
     /\ Survives(rows, slf, j, a.wptsMatchRadius)
     /\ RLe(R(a.wptsMinDuration), TotalTime(rows, slf, j))}
\* the square of the largest distance between a row and its leg in the
\* alignment at offset j
RECURSIVE Largest2(_, _, _, _)
Largest2(rows, slf, j, i) ==
  IF i > Compared(rows, slf, j) THEN Zero
  ELSE RMax(Norm2(VSub(rows[j + i - 1].latLon, slf[i].wpt.wpt)),
            Largest2(rows, slf, j, i + 1))

C39_RoundTrip == cpc = "decoded" => dec = deg

\* a negative value with minutes that are not whole was encoded and decoded
C39_Witness ==
  /\ cpc = "decoded"
  /\ RLt(deg, Zero) /\ deg[2] = 7
  /\ DegMin(deg) # deg
  /\ dec = deg

====
